---- MODULE Spec2Model ----
(***************************************************************************)
(* A model of the netzob core: the XorShift integer generator, the         *)
(* determinist integer mutator and the Data leaf variable.                 *)
(*                                                                         *)
(* Three independent state machines share this module.  Each has its own   *)
(* variables and its own specification; a specification leaves the other   *)
(* machines' variables unchanged.                                          *)
(*   SpecXor   one XorShiftGenerator: draws, get_state, set_state          *)
(*   SpecXor2  two XorShiftGenerators built from the same arguments        *)
(*   SpecMut   one DeterministIntegerMutator: generate, reset, seed        *)
(*   SpecParse       one Data leaf and the parsing path it is handed       *)
(*   SpecSpecialize  one Data leaf and the specializing paths of a session *)
(***************************************************************************)
EXTENDS Integers, Sequences, FiniteSets, TLC

VARIABLES
    xcfg,      \* XorShiftGenerator: constructor arguments (seed, minValue, maxValue, signed)
    gen,       \* XorShiftGenerator: per instance, _state, _firstCall, _nbCall
    outs,      \* per instance, the values returned by next(), oldest first
    xsaved,    \* the tuple the caller got from get_state(), if any
    xrec,      \* values drawn since get_state()
    xrep,      \* values drawn since set_state()
    xphase,    \* "idle", "recording" (after get_state), "replaying" (after set_state)
    mut,       \* DeterministIntegerMutator: _currentCounter, counterMax, _seed, the generator's cursor
    mhist,     \* outcomes of the generate() calls since construction or the last reset()
    mreset,    \* whether reset() has been called
    mbefore,   \* how many of the generate() calls made before the last reset() failed
    mlast,     \* what the last getValueAt(position) returned
    data,      \* Data leaves: per variable, its dataType and its currentValue
    dpath,     \* the path the caller holds: its Memory, its results, the content to parse
    dpathId,   \* which path object dpath is (paths are numbered as they are created)
    dyield,    \* the paths the last Data operation yielded or returned, in order
    dop,       \* the last Data operation: name, variable, the path as it was before, error
    dgen,      \* per variable, what regenerateAndMemorize last generated into this Memory
    symbol,    \* Symbol: its name and its fields, in Field order
    spath,     \* the SpecializingPath of the current specialize(): memory, results, presets
    spc,       \* where specialize() is: "new", "pass1", "pass2", "done", "error"
    sout,      \* the bytes specialize() returned
    sargs,     \* the memory and the presets specialize() was called with
    sorder,    \* the fields in the order specialize() resolved them
    sprs,      \* the parse of the returned bytes against the Symbol
    ea,        \* a Symbol that is compared
    eb,        \* what it is compared with: a Symbol, another object or None
    eres,      \* what a == b, a != b and the two hashes gave, once computed
    cdomain,   \* the domain DeterministIntegerMutator(...) is called with
    cinterval, \* the interval it is called with
    cmut,      \* what the constructor gave: _minValue and _maxValue, or an exception
    vheap,     \* the bit vectors that exist, by identity
    vcur,      \* the identity of Data's __currentValue, 0 for None
    vheld,     \* the bit vectors the caller holds: identity, and "built" or "read"
    vexpect,   \* the value last given to the currentValue setter
    chan,      \* AbstractChannel: __writeCounter, __writeCounterMax, threaded_mode, queue_output
    hsent,     \* the limit set while the counter was 0 (0 if none) and the write() calls that sent since
    hlast,     \* the last write(): its outcome, the limit it met and the packets it sent
    lheap,     \* the list objects, by identity; object 1 is the Symbol's __messages
    lheld,     \* the identities of the lists the caller holds
    lop,       \* the last operation on the Symbol's messages: the list it was given, as it was then
    tchan,     \* AbstractChannel run as a thread: the counters, threaded_mode and the output queue
    tunfinished, \* the items put on the output queue and not yet marked done (Queue.unfinished_tasks)
    tstop,     \* whether __stopEvent is set
    topen,     \* whether the channel is open
    tpc,       \* where the channel thread is in run()
    tdata,     \* the item the channel thread took from the queue
    tlog,      \* write() calls, items enqueued, items handed to writePacket in order, what escaped run()
    tsent,     \* the limit set while nothing had been sent (0 if none) and the packets handed to writePacket since the last clear
    tlast,     \* the last write(): its outcome and whether the limit was reached when it was called
    tmain,     \* the caller's thread: idle, inside stop() or inside flush(), and what the last flush() saw
    kstamp,    \* Timestamp: its unity and its value, if one was given
    know,      \* the time since the epoch (utcnow() - epoch), in tenths of a second
    kout       \* what the last generate() returned, and when

xvars == <<xcfg, gen, outs, xsaved, xrec, xrep, xphase>>

mvars == <<mut, mhist, mreset, mbefore, mlast>>

dvars == <<data, dpath, dpathId, dyield, dop, dgen>>

svars == <<symbol, sargs, spath, spc, sout, sorder, sprs>>

evars == <<ea, eb, eres>>

cvars == <<cdomain, cinterval, cmut>>

vvars == <<vheap, vcur, vheld, vexpect>>

hvars == <<chan, hsent, hlast>>

lvars == <<lheap, lheld, lop>>

tvars == <<tchan, tunfinished, tstop, topen, tpc, tdata, tlog, tsent, tlast, tmain>>

kvars == <<kstamp, know, kout>>

vars == <<xvars, mvars, dvars, svars, evars, cvars, vvars, hvars, lvars, tvars, kvars>>

\* What the operations of one machine leave alone: the other machines.
xothers == <<mvars, dvars, svars, evars, cvars, vvars, hvars, lvars, tvars, kvars>>

mothers == <<xvars, dvars, svars, evars, cvars, vvars, hvars, lvars, tvars, kvars>>

dothers == <<xvars, mvars, svars, evars, cvars, vvars, hvars, lvars, tvars, kvars>>

sothers == <<xvars, mvars, dvars, evars, cvars, vvars, hvars, lvars, tvars, kvars>>

eothers == <<xvars, mvars, dvars, svars, cvars, vvars, hvars, lvars, tvars, kvars>>

cothers == <<xvars, mvars, dvars, svars, evars, vvars, hvars, lvars, tvars, kvars>>

vothers == <<xvars, mvars, dvars, svars, evars, cvars, hvars, lvars, tvars, kvars>>

hothers == <<xvars, mvars, dvars, svars, evars, cvars, vvars, lvars, tvars, kvars>>

lothers == <<xvars, mvars, dvars, svars, evars, cvars, vvars, hvars, tvars, kvars>>

tothers == <<xvars, mvars, dvars, svars, evars, cvars, vvars, hvars, lvars, kvars>>

kothers == <<xvars, mvars, dvars, svars, evars, cvars, vvars, hvars, lvars, tvars>>

(***************************************************************************)
(* Bounds of the model.                                                    *)
(***************************************************************************)
\* next() is called at most this many times on one generator.
MaxDraws == 6
\* The largest number of fields of a Symbol.
MaxFields == 3
\* write() is called at most this many times between two clearSendLimit().
MaxWrites == 4
\* The largest number of packets one write() with a duration sends.
MaxPackets == 2
\* The largest number of bit vectors that exist at a time.
MaxObjects == 4
\* The largest counterMax a mutator is configured with.
MaxCounterMax == 3
\* generate() is called at most this many times between two resets.
MaxGenerate == 5
\* The longest list of determinist values, and the largest seed set.
MaxNbValues == 2
\* The longest content handed to a parse operation, in bits.
MaxLen == 3
\* The longest value Type.generate() produces, in bits.
MaxGenLen == 2
\* The number of further paths built around the same Memory.
MaxPaths == 2
\* The largest number of list objects that exist at a time.
MaxLists == 3
\* write() is called at most this many times on a channel run as a thread.
MaxQueued == 3
\* The longest time since the epoch, in tenths of a second.
MaxTicks == 25

(***************************************************************************)
(* Integer helpers: Python's ^ on non-negative integers, abs, powers of 2. *)
(***************************************************************************)
RECURSIVE Xor(_, _)
Xor(a, b) ==
    IF a = 0 THEN b
    ELSE IF b = 0 THEN a
    ELSE (((a % 2) + (b % 2)) % 2) + 2 * Xor(a \div 2, b \div 2)

Abs(n) == IF n < 0 THEN -n ELSE n

RECURSIVE Pow2Rec(_)
Pow2Rec(n) == IF n = 0 THEN 1 ELSE 2 * Pow2Rec(n - 1)

\* 2^n for the exponents the word widths need, evaluated once.
Pow2Table == [n \in 0..16 |-> Pow2Rec(n)]

Pow2(n) == Pow2Table[n]

\* (state << k) & (2^w - 1): the low w - k bits of state, moved up by k.
ShlMask(state, k, w) == (state % Pow2(w - k)) * Pow2(k)

\* (state >> k) & (2^w - 1)
ShrMask(state, k, w) == (state \div Pow2(k)) % Pow2(w)

(***************************************************************************)
(* The xorshift transitions.                                               *)
(***************************************************************************)
\* A transition with the shifts in the order right, left, left.
xorshift8_rightFirst(state) ==
    LET s1 == Xor(state, ShrMask(state, 5, 8))
        s2 == Xor(s1, ShlMask(s1, 7, 8))
        s3 == Xor(s2, ShlMask(s2, 3, 8))
    IN  s3

xorshift8(state) ==
    LET s1 == Xor(state, ShlMask(state, 7, 8))
        s2 == Xor(s1, ShrMask(s1, 5, 8))
        s3 == Xor(s2, ShlMask(s2, 3, 8))
    IN  s3

xorshift16(state) ==
    LET s1 == Xor(state, ShlMask(state, 13, 16))
        s2 == Xor(s1, ShrMask(s1, 9, 16))
        s3 == Xor(s2, ShlMask(s2, 7, 16))
    IN  s3

\* xorshift8 on the states of one byte, evaluated once.
XorShift8Table == [s \in 0..255 |-> xorshift8(s)]

(***************************************************************************)
(* XorShiftGenerator.                                                      *)
(***************************************************************************)
GenIds == {1, 2}

\* What next() hands back is recorded as [tag, v, first]: tag "value" with
\* the integer v, tag "none" for None, tag "overflow" for the OverflowError
\* of to_bytes; first tells whether __next__ restarted from the seed.

\* AbstractType.computeUnitSize: the smallest unit size holding nbValues values.
computeUnitSize(nbValues) ==
    IF nbValues <= 16 THEN 4
    ELSE IF nbValues <= 256 THEN 8
    ELSE 16

\* __init__: the word width chosen for the interval.
Bitsize(cfg) ==
    LET bitsize == computeUnitSize(Abs(cfg.maxValue - cfg.minValue) + 1)
    IN  IF bitsize = 4 THEN 8 ELSE bitsize

\* __init__: the generator after construction.
XorShiftGenerator(cfg) ==
    [state |-> cfg.seed, firstCall |-> TRUE, nbCall |-> 0]

\* self._xorshift_func(self._state)
xorshift_func(cfg, state) ==
    IF Bitsize(cfg) = 8
    THEN IF state \in DOMAIN XorShift8Table THEN XorShift8Table[state]
         ELSE xorshift8(state)
    ELSE xorshift16(state)

\* result.to_bytes(bitsize // 8, signed=False) fails on a result that does not
\* fit the width.
FitsWidth(cfg, result) == result < Pow2(Bitsize(cfg))

\* A conversion by arithmetic negation of the upper half.
ToSigned_negate(cfg, result) ==
    IF result >= Pow2(Bitsize(cfg) - 1) THEN -(result - Pow2(Bitsize(cfg) - 1)) ELSE result

\* int.from_bytes(result.to_bytes(...), signed=True): two's complement.
ToSigned(cfg, result) ==
    IF result >= Pow2(Bitsize(cfg) - 1) THEN result - Pow2(Bitsize(cfg)) ELSE result

\* The interval test that forgets the lower bound.
InInterval_upperOnly(cfg, result) == result <= cfg.maxValue

\* self.minValue <= result <= self.maxValue
InInterval(cfg, result) == cfg.minValue <= result /\ result <= cfg.maxValue

\* The depth the interpreter lets __inner_next__ recurse to before it raises
\* RecursionError.
RecursionLimit == 1000

\* One pass through __inner_next__ on a raw result: the signedness
\* conversion and the interval test.  tag "none" here means "rejected".
Candidate(cfg, raw, state) ==
    IF cfg.signed /\ ~FitsWidth(cfg, raw)
    THEN [tag |-> "overflow", v |-> 0, state |-> state]
    ELSE LET result == IF cfg.signed THEN ToSigned(cfg, raw) ELSE raw
         IN  IF InInterval(cfg, result)
             THEN [tag |-> "value", v |-> result, state |-> state]
             ELSE [tag |-> "none", v |-> 0, state |-> state]

\* The recursive calls of __inner_next__ once _firstCall is False: up to n
\* successive xorshift draws from state, stopping at the first one the
\* interval accepts.  The n draws are made in the code's order; they are
\* evaluated in two halves so that the evaluation does not nest n deep.
RECURSIVE Retry(_, _, _)
Retry(cfg, state, n) ==
    IF n = 0 THEN [tag |-> "none", v |-> 0, state |-> state]
    ELSE IF n = 1
    THEN LET s1 == xorshift_func(cfg, state) IN Candidate(cfg, s1, s1)
    ELSE LET h == n \div 2
             a == Retry(cfg, state, h)
         IN  IF a.tag # "none" THEN a ELSE Retry(cfg, a.state, n - h)

\* An __inner_next__ that never forces the first value.
inner_next_noforce(cfg, g) == Retry(cfg, g.state, RecursionLimit)

\* __inner_next__: the forced 0 of a first call, then the rejection loop.
\* RecursionError (no accepted value within the recursion limit) gives None.
inner_next(cfg, g) ==
    IF g.firstCall
    THEN LET c == Candidate(cfg, 0, g.state)
         IN  IF c.tag = "none" THEN Retry(cfg, g.state, RecursionLimit - 1) ELSE c
    ELSE Retry(cfg, g.state, RecursionLimit)

\* The draw counter every instance would read if _nbCall were shared.
nbCallOf_shared(i) == gen[1].nbCall

\* self._nbCall of instance i
nbCallOf(i) == gen[i].nbCall

\* A __next__ whose draw counter never wraps.
next_noWrap(cfg, i) ==
    LET first == (nbCallOf(i) = 0)
        g0 == IF first
              THEN [gen[i] EXCEPT !.firstCall = TRUE, !.state = cfg.seed]
              ELSE [gen[i] EXCEPT !.firstCall = FALSE]
        r == inner_next(cfg, g0)
    IN  [g |-> [state |-> r.state, firstCall |-> FALSE,
                nbCall |-> nbCallOf(i) + 1],
         out |-> [tag |-> r.tag, v |-> r.v, first |-> first]]

\* __next__ on instance i: the generator after the call and the value returned.
next(cfg, i) ==
    LET first == (nbCallOf(i) = 0)
        g0 == IF first
              THEN [gen[i] EXCEPT !.firstCall = TRUE, !.state = cfg.seed]
              ELSE [gen[i] EXCEPT !.firstCall = FALSE]
        nb_values == Abs(cfg.maxValue - cfg.minValue) + 1
        r == inner_next(cfg, g0)
    IN  [g |-> [state |-> r.state, firstCall |-> FALSE,
                nbCall |-> (nbCallOf(i) + 1) % nb_values],
         out |-> [tag |-> r.tag, v |-> r.v, first |-> first]]

\* get_state
get_state(i) == [state |-> gen[i].state, firstCall |-> gen[i].firstCall]

\* set_state
set_state(i, st) == [gen[i] EXCEPT !.state = st.state, !.firstCall = st.firstCall]

\* Constructor arguments the model draws from: nonzero seeds of one byte and
\* intervals of at most 256 values (the 8-bit transition).
XSeeds == {1, 14, 255}
XIntervals == {<<0, 3>>, <<1, 5>>, <<-2, 1>>, <<0, 255>>, <<-128, 127>>, <<-20, -20>>}

\* The generators once constructed from cfg, nothing drawn yet.
XStart(cfg) ==
    /\ xcfg = cfg
    /\ gen = [i \in GenIds |-> XorShiftGenerator(xcfg)]
    /\ outs = [i \in GenIds |-> <<>>]
    /\ xsaved = [state |-> 0, firstCall |-> FALSE]
    /\ xrec = <<>>
    /\ xrep = <<>>
    /\ xphase = "idle"

XInit ==
    \E seed \in XSeeds, iv \in XIntervals, signed \in BOOLEAN :
        XStart([seed |-> seed, minValue |-> iv[1], maxValue |-> iv[2],
                signed |-> signed])

\* The generator machine when a specification does not exercise it.
XIdle == XStart([seed |-> 1, minValue |-> 0, maxValue |-> 255, signed |-> FALSE])

\* next(g) on instance i.
XNext(i) ==
    /\ Len(outs[i]) < MaxDraws
    /\ LET r == next(xcfg, i)
       IN  /\ gen' = [gen EXCEPT ![i] = r.g]
           /\ outs' = [outs EXCEPT ![i] = Append(@, r.out)]
           /\ xrec' = IF xphase = "recording" THEN Append(xrec, r.out) ELSE xrec
           /\ xrep' = IF xphase = "replaying" THEN Append(xrep, r.out) ELSE xrep
    /\ xphase' = IF xphase = "replaying" /\ Len(xrep') = Len(xrec) THEN "idle" ELSE xphase
    /\ UNCHANGED <<xcfg, xsaved, xothers>>

\* st = g.get_state(): the caller keeps the tuple and starts counting draws.
XGetState(i) ==
    /\ xphase = "idle"
    /\ Len(outs[i]) < MaxDraws
    /\ xsaved' = get_state(i)
    /\ xrec' = <<>>
    /\ xrep' = <<>>
    /\ xphase' = "recording"
    /\ UNCHANGED <<xcfg, gen, outs, xothers>>

\* g.set_state(st) with the tuple kept from get_state().
XSetState(i) ==
    /\ xphase = "recording"
    /\ Len(xrec) > 0
    /\ gen' = [gen EXCEPT ![i] = set_state(i, xsaved)]
    /\ xrep' = <<>>
    /\ xphase' = "replaying"
    /\ UNCHANGED <<xcfg, outs, xsaved, xrec, xothers>>

\* The names gen holds before XorShiftGenerator(...) has returned an object.
XNoGenerator == [state |-> 0, firstCall |-> FALSE, nbCall |-> 0]

\* The ValueErrors of __init__ and of the minValue and maxValue setters.
XFailures == {"seed=0", "minValue None", "maxValue None", "Bitsize not supported"}

\* A constructor that takes any seed.
XorShiftGenerator_init_anySeed(args) ==
    IF "minValue" \in args.missing
    THEN [err |-> "minValue None", g |-> XNoGenerator]
    ELSE IF "maxValue" \in args.missing
    THEN [err |-> "maxValue None", g |-> XNoGenerator]
    ELSE IF Bitsize(args) \notin {8, 16, 32, 64}
    THEN [err |-> "Bitsize not supported", g |-> XNoGenerator]
    ELSE [err |-> "", g |-> XorShiftGenerator(args)]

\* __init__ with its failures, in the order of the code: the seed, the
\* minValue and maxValue setters, the word width.
XorShiftGenerator_init(args) ==
    IF args.seed = 0 THEN [err |-> "seed=0", g |-> XNoGenerator]
    ELSE IF "minValue" \in args.missing
    THEN [err |-> "minValue None", g |-> XNoGenerator]
    ELSE IF "maxValue" \in args.missing
    THEN [err |-> "maxValue None", g |-> XNoGenerator]
    ELSE IF Bitsize(args) \notin {8, 16, 32, 64}
    THEN [err |-> "Bitsize not supported", g |-> XNoGenerator]
    ELSE [err |-> "", g |-> XorShiftGenerator(args)]

\* Constructor arguments, valid or not: the seed 0, seeds of one byte, seeds
\* of 2^8 and 2^16 and more; intervals of 8-bit and 16-bit width; minValue or
\* maxValue left at None.
XAnySeeds == {0, 1, 14, 255, 256, 300, 65535, 65536}
XAnyIntervals == XIntervals \cup {<<0, 1000>>, <<300, 310>>}
XMissing == {{}, {"minValue"}, {"maxValue"}, {"minValue", "maxValue"}}

\* The arguments of a constructor call that has not been made yet.
XInitNew ==
    \E seed \in XAnySeeds, iv \in XAnyIntervals, signed \in BOOLEAN,
       missing \in XMissing :
        /\ xcfg = [seed |-> seed, minValue |-> iv[1], maxValue |-> iv[2],
                   signed |-> signed, missing |-> missing]
        /\ gen = [i \in GenIds |-> XNoGenerator]
        /\ outs = [i \in GenIds |-> <<>>]
        /\ xsaved = [state |-> 0, firstCall |-> FALSE]
        /\ xrec = <<>>
        /\ xrep = <<>>
        /\ xphase = "new"

\* g = XorShiftGenerator(seed, minValue, maxValue, signed=signed)
XConstruct ==
    /\ xphase = "new"
    /\ LET r == XorShiftGenerator_init(xcfg)
       IN  /\ gen' = [i \in GenIds |-> r.g]
           /\ xphase' = IF r.err = "" THEN "idle" ELSE r.err
    /\ UNCHANGED <<xcfg, outs, xsaved, xrec, xrep, xothers>>

\* The number of draws of "for _ in range(256): a.add(next(g))".
CoverageDraws == 256

\* A fresh signed generator on [-128, 127], for every seed of one byte.
XInitCoverage ==
    \E seed \in 1..255 :
        XStart([seed |-> seed, minValue |-> -128, maxValue |-> 127, signed |-> TRUE])

\* a.add(next(g)), at most CoverageDraws times.
XDrawCoverage ==
    /\ Len(outs[1]) < CoverageDraws
    /\ LET r == next(xcfg, 1)
       IN  /\ gen' = [gen EXCEPT ![1] = r.g]
           /\ outs' = [outs EXCEPT ![1] = Append(@, r.out)]
    /\ UNCHANGED <<xcfg, xsaved, xrec, xrep, xphase, xothers>>

\* next(g) on the generator the constructor returned.
XDraw ==
    /\ xphase = "idle"
    /\ XNext(1)


(***************************************************************************)
(* DeterministIntegerMutator.                                              *)
(***************************************************************************)
\* DeterministGenerator.seed setter: the cursor is the seed modulo the
\* number of values.
ng_seed(m, seedValue) == [m EXCEPT !.pos = seedValue % m.nbValues]

\* DeterministGenerator.getNewValue: the value under the cursor; the cursor
\* moves on, wrapping at the end of the list.
ng_getNewValue(m) ==
    [m |-> [m EXCEPT !.pos = (m.pos + 1) % m.nbValues], value |-> m.pos]

\* DeterministGenerator.reset: the cursor goes back to the seed's position.
ng_reset(m) == [m EXCEPT !.pos = m.seed % m.nbValues]

\* Mutator.resetCurrentCounter
resetCurrentCounter(m) == [m EXCEPT !.currentCounter = 0]

\* __init__: a mutator with its counter at 0 and its list of values built.
DeterministIntegerMutator(counterMax, nbValues) ==
    [currentCounter |-> 0, counterMax |-> counterMax, seed |-> 0, pos |-> 0,
     nbValues |-> nbValues]

\* seed setter
mutator_seed(m, seedValue) == ng_seed([m EXCEPT !.seed = seedValue], seedValue)

\* DeterministGenerator.getValueAt: the value at position, None outside the
\* list; the cursor stays where it is.
ng_getValueAt(m, position) ==
    IF position \in 0..(m.nbValues - 1)
    THEN [tag |-> "value", v |-> position]
    ELSE [tag |-> "none", v |-> 0]

\* getValueAt: the mutator after the call and the value returned.
getValueAt(m, position) == [m |-> m, out |-> ng_getValueAt(m, position)]

\* A reset that moves the cursor back and leaves the counter as it is.
mutator_reset_cursorOnly(m) == ng_reset(m)

\* reset
mutator_reset(m) == resetCurrentCounter(ng_reset(m))

\* The budget test that lets one call too many through.
budgetLeft_inclusive(m) == m.currentCounter <= m.counterMax

\* generate: self._currentCounter < self.counterMax
budgetLeft(m) == m.currentCounter < m.counterMax

\* A generate that counts the call before it tests the budget.
generate_countsFirst(m) ==
    IF budgetLeft(m)
    THEN LET r == ng_getNewValue([m EXCEPT !.currentCounter = m.currentCounter + 1])
         IN  [m |-> r.m, out |-> [tag |-> "value", v |-> r.value]]
    ELSE [m |-> [m EXCEPT !.currentCounter = m.currentCounter + 1],
          out |-> [tag |-> "error", v |-> 0]]

\* generate: the mutator after the call, and the value returned or the
\* exception "Max mutation counter reached".
generate(m) ==
    IF budgetLeft(m)
    THEN LET r == ng_getNewValue([m EXCEPT !.currentCounter = m.currentCounter + 1])
         IN  [m |-> r.m, out |-> [tag |-> "value", v |-> r.value]]
    ELSE [m |-> m, out |-> [tag |-> "error", v |-> 0]]

\* mlast before any getValueAt() call.
NoValueAt == [position |-> -1, out |-> [tag |-> "none", v |-> 0]]

\* The mutator once constructed, generate() not called yet.
MStart(counterMax, nbValues) ==
    /\ mut = DeterministIntegerMutator(counterMax, nbValues)
    /\ mhist = <<>>
    /\ mreset = FALSE
    /\ mbefore = 0
    /\ mlast = NoValueAt

MInit ==
    \E counterMax \in 0..MaxCounterMax, nbValues \in 1..MaxNbValues :
        MStart(counterMax, nbValues)

\* The mutator machine when a specification does not exercise it.
MIdle == MStart(0, 1)

\* mutator.generate()
MGenerate ==
    /\ Len(mhist) < MaxGenerate
    /\ LET r == generate(mut)
       IN  /\ mut' = r.m
           /\ mhist' = Append(mhist, r.out)
    /\ UNCHANGED <<mreset, mbefore, mlast, mothers>>

\* mutator.reset()
MReset ==
    /\ mhist # <<>>
    /\ mut' = mutator_reset(mut)
    /\ mhist' = <<>>
    /\ mreset' = TRUE
    /\ mbefore' = Len(SelectSeq(mhist, LAMBDA o : o.tag = "error"))
    /\ UNCHANGED <<mlast, mothers>>

\* mutator.seed = seedValue
MSetSeed ==
    /\ \E seedValue \in 0..MaxNbValues :
          /\ seedValue # mut.seed
          /\ mut' = mutator_seed(mut, seedValue)
    /\ UNCHANGED <<mhist, mreset, mbefore, mlast, mothers>>

\* mutator.getValueAt(position)
MGetValueAt ==
    /\ \E position \in 0..MaxNbValues :
          LET r == getValueAt(mut, position)
          IN  /\ mut' = r.m
              /\ mlast' = [position |-> position, out |-> r.out]
    /\ UNCHANGED <<mhist, mreset, mbefore, mothers>>

(***************************************************************************)
(* Bit vectors, the Type contract, Memory and paths.                       *)
(***************************************************************************)
\* Python's None where a bitarray is expected.
NoneV == <<-1>>

\* None as the maxSize of a type.
NoSize == -1

\* The bitarrays of at most n bits.
Bits(n) == UNION {[1..k -> {0, 1}] : k \in 0..n}

\* content[:size]
Prefix(content, size) == SubSeq(content, 1, size)

Min(a, b) == IF a <= b THEN a ELSE b

\* AbstractType.canParse, for three kinds of type: one that accepts every
\* bit vector, one that accepts whole units of two bits, one that looks at
\* the content (a leading 1).
canParse(dataType, bits) ==
    CASE dataType.kind = "any" -> TRUE
      [] dataType.kind = "unit" -> Len(bits) % 2 = 0
      [] dataType.kind = "lead1" -> Len(bits) > 0 /\ bits[1] = 1

\* AbstractType.generate: the values a type can produce, all of them within
\* its size bounds and accepted by canParse.
Generated(dataType) ==
    {b \in Bits(MaxGenLen) :
        /\ dataType.minSize <= Len(b)
        /\ (dataType.maxSize = NoSize \/ Len(b) <= dataType.maxSize)
        /\ canParse(dataType, b)}

\* Memory.hasValue
hasValue(memory, v) == memory[v] # NoneV

\* Memory.getValue
getValue(memory, v) == memory[v]

\* Memory.memorize
memorize(memory, v, bits) == [memory EXCEPT ![v] = bits]

\* GenericPath.addResult: the path with bits recorded as the result of v.
addResult(path, v, bits) == [path EXCEPT !.results[v] = bits]

\* What GenericPath.addResult returns: False when a relation waiting for v on
\* the path refuses the result, which the path then holds all the same.
addResult_succeed(path, v, bits) == <<v, bits>> \notin path.refused

\* ParsingPath.getData: the content assigned to v.
getData(path, v) == path.content

\* ParsingPath.duplicate: a path with its own copy of the results and of
\* the Memory; what is done to the copy leaves the original as it was.
duplicate(path) == [memory |-> path.memory, results |-> path.results,
                    content |-> path.content, refused |-> path.refused]

\* AbstractVariable.getFixedBitSize: the size of a type of one size only;
\* -1 stands for the ValueError of a type whose size varies.
getFixedBitSize(d) ==
    IF d.dataType.minSize = d.dataType.maxSize THEN d.dataType.minSize ELSE -1

\* path.memory of a path no Memory is attached to (None).
NoMemory == <<>>

\* An isDefined that asks for the Memory before it looks at the fixed value.
isDefined_memoryFirst(d, v, path) ==
    IF path.memory = NoMemory
    THEN [given |-> path, yielded |-> <<>>, err |-> TRUE, ret |-> FALSE]
    ELSE [given |-> path, yielded |-> <<>>, err |-> FALSE,
          ret |-> (d.currentValue # NoneV \/ hasValue(path.memory, v))]

\* isDefined: ret is the boolean returned, err the exception "Provided path
\* has no memory attached."
isDefined(d, v, path) ==
    IF d.currentValue # NoneV
    THEN [given |-> path, yielded |-> <<>>, err |-> FALSE, ret |-> TRUE]
    ELSE LET memory == path.memory
         IN  IF memory = NoMemory
             THEN [given |-> path, yielded |-> <<>>, err |-> TRUE, ret |-> FALSE]
             ELSE [given |-> path, yielded |-> <<>>, err |-> FALSE,
                   ret |-> hasValue(memory, v)]

(***************************************************************************)
(* Data: the parse operations.  Each gives the path it was handed as it is *)
(* after the call (given), the paths it yields in order (yielded) and      *)
(* whether it raised (err).                                                *)
(***************************************************************************)
\* The loop of domainCMP: for size in range(size, minSize - 1, -1).
RECURSIVE domainCMP_loop(_, _, _, _, _)
domainCMP_loop(d, v, parsingPath, size, minSize) ==
    IF size < minSize THEN <<>>
    ELSE LET content == getData(parsingPath, v)
             here == IF size = 0 \/ canParse(d.dataType, Prefix(content, size))
                     THEN <<addResult(duplicate(parsingPath), v, Prefix(content, size))>>
                     ELSE <<>>
         IN  here \o domainCMP_loop(d, v, parsingPath, size - 1, minSize)

\* A domainCMP whose loop stops one size too early.
domainCMP_skipMin(d, v, parsingPath) ==
    LET content == getData(parsingPath, v)
        minSize == d.dataType.minSize
        maxSize == IF d.dataType.maxSize = NoSize THEN Len(content)
                   ELSE d.dataType.maxSize
    IN  [given |-> parsingPath,
         yielded |-> IF Len(content) < minSize THEN <<>>
                     ELSE domainCMP_loop(d, v, parsingPath,
                                         Min(maxSize, Len(content)), minSize + 1),
         err |-> FALSE]

\* A domainCMP that raises when no size is accepted.
domainCMP_raising(d, v, parsingPath) ==
    LET content == getData(parsingPath, v)
        minSize == d.dataType.minSize
        maxSize == IF d.dataType.maxSize = NoSize THEN Len(content)
                   ELSE d.dataType.maxSize
        found == IF Len(content) < minSize THEN <<>>
                 ELSE domainCMP_loop(d, v, parsingPath,
                                     Min(maxSize, Len(content)), minSize)
    IN  [given |-> parsingPath, yielded |-> found,
         err |-> (Len(content) >= minSize /\ found = <<>>)]

\* domainCMP
domainCMP(d, v, parsingPath) ==
    LET content == getData(parsingPath, v)
        minSize == d.dataType.minSize
        maxSize == IF d.dataType.maxSize = NoSize THEN Len(content)
                   ELSE d.dataType.maxSize
    IN  [given |-> parsingPath,
         yielded |-> IF Len(content) < minSize THEN <<>>
                     ELSE domainCMP_loop(d, v, parsingPath,
                                         Min(maxSize, Len(content)), minSize),
         err |-> FALSE]

\* bitarray.tobytes: the bits, padded with zeros up to a whole number of bytes.
tobytes(bits) == bits \o [i \in 1..((8 - (Len(bits) % 8)) % 8) |-> 0]

\* A valueCMP that wants the content to be the expected value and no more.
valueCMP_exactLength(d, v, parsingPath) ==
    LET memory == parsingPath.memory
        expectedValue == IF hasValue(memory, v) THEN getValue(memory, v)
                         ELSE d.currentValue
        content == getData(parsingPath, v)
    IN  IF expectedValue = NoneV
        THEN [given |-> parsingPath, yielded |-> <<>>, err |-> TRUE]
        ELSE IF tobytes(content) = tobytes(expectedValue)
        THEN LET p == addResult(parsingPath, v, content)
             IN  [given |-> p, yielded |-> <<p>>, err |-> FALSE]
        ELSE [given |-> parsingPath, yielded |-> <<>>, err |-> FALSE]

\* A valueCMP that tests the length of the content only.
valueCMP_anyPrefix(d, v, parsingPath) ==
    LET memory == parsingPath.memory
        expectedValue == IF hasValue(memory, v) THEN getValue(memory, v)
                         ELSE d.currentValue
        content == getData(parsingPath, v)
    IN  IF expectedValue = NoneV
        THEN [given |-> parsingPath, yielded |-> <<>>, err |-> TRUE]
        ELSE IF Len(content) >= Len(expectedValue)
        THEN LET p == addResult(parsingPath, v, Prefix(content, Len(expectedValue)))
             IN  [given |-> p, yielded |-> <<p>>, err |-> FALSE]
        ELSE [given |-> parsingPath, yielded |-> <<>>, err |-> FALSE]

\* valueCMP: the result is recorded on the path that was handed in, and that
\* same path is returned.
valueCMP(d, v, parsingPath) ==
    LET memory == parsingPath.memory
        expectedValue == IF hasValue(memory, v) THEN getValue(memory, v)
                         ELSE d.currentValue
        content == getData(parsingPath, v)
    IN  IF expectedValue = NoneV
        THEN [given |-> parsingPath, yielded |-> <<>>, err |-> TRUE]
        ELSE IF /\ Len(content) >= Len(expectedValue)
                /\ tobytes(Prefix(content, Len(expectedValue))) = tobytes(expectedValue)
        THEN LET p == addResult(parsingPath, v, Prefix(content, Len(expectedValue)))
             IN  [given |-> p, yielded |-> <<p>>, err |-> FALSE]
        ELSE [given |-> parsingPath, yielded |-> <<>>, err |-> FALSE]

\* A loop of learn that records the result and leaves the Memory as it was.
learn_loop_forgets(d, v, parsingPath, size, minSize) ==
    domainCMP_loop(d, v, parsingPath, size, minSize)

\* The loop of learn: every accepted size is recorded on a duplicate, and
\* memorized and yielded when addResult succeeded.
RECURSIVE learn_loop(_, _, _, _, _)
learn_loop(d, v, parsingPath, size, minSize) ==
    IF size < minSize THEN <<>>
    ELSE LET content == getData(parsingPath, v)
             newParsingPath == addResult(duplicate(parsingPath), v, Prefix(content, size))
             addresult_succeed == addResult_succeed(duplicate(parsingPath), v,
                                                    Prefix(content, size))
             here == IF /\ size = 0 \/ canParse(d.dataType, Prefix(content, size))
                        /\ addresult_succeed
                     THEN <<[newParsingPath EXCEPT
                               !.memory = memorize(@, v, Prefix(content, size))]>>
                     ELSE <<>>
         IN  here \o learn_loop(d, v, parsingPath, size - 1, minSize)

\* learn
learn(d, v, parsingPath) ==
    LET content == getData(parsingPath, v)
        actualSize == Len(content)
        fixed == getFixedBitSize(d)
        minSize == IF fixed # -1 THEN fixed ELSE d.dataType.minSize
        maxSize == IF fixed # -1 THEN fixed
                   ELSE IF d.dataType.maxSize = NoSize THEN actualSize
                   ELSE d.dataType.maxSize
    IN  [given |-> parsingPath,
         yielded |-> IF actualSize < minSize THEN <<>>
                     ELSE learn_loop(d, v, parsingPath,
                                     Min(maxSize, Len(content)), minSize),
         err |-> FALSE]

(***************************************************************************)
(* Data: the specialize operations.  They write on the path they are       *)
(* handed and return that path.                                            *)
(***************************************************************************)
\* A use that looks at the fixed value before the Memory.
use_currentValueFirst(d, v, variableSpecializerPath) ==
    LET memory == variableSpecializerPath.memory
    IN  IF d.currentValue # NoneV
        THEN LET p == addResult(variableSpecializerPath, v, d.currentValue)
             IN  [given |-> p, yielded |-> <<p>>, err |-> FALSE]
        ELSE IF hasValue(memory, v)
        THEN LET p == addResult(variableSpecializerPath, v, getValue(memory, v))
             IN  [given |-> p, yielded |-> <<p>>, err |-> FALSE]
        ELSE [given |-> variableSpecializerPath, yielded |-> <<>>, err |-> FALSE]

\* use
use(d, v, variableSpecializerPath) ==
    LET memory == variableSpecializerPath.memory
    IN  IF hasValue(memory, v)
        THEN LET p == addResult(variableSpecializerPath, v, getValue(memory, v))
             IN  [given |-> p, yielded |-> <<p>>, err |-> FALSE]
        ELSE IF d.currentValue # NoneV
        THEN LET p == addResult(variableSpecializerPath, v, d.currentValue)
             IN  [given |-> p, yielded |-> <<p>>, err |-> FALSE]
        ELSE [given |-> variableSpecializerPath, yielded |-> <<>>, err |-> FALSE]

\* A regenerate that memorizes what it generated.
regenerate_memorizes(d, v, variableSpecializerPath, newValue) ==
    LET m == [variableSpecializerPath EXCEPT !.memory = memorize(@, v, newValue)]
        p == addResult(m, v, newValue)
    IN  [given |-> p, yielded |-> <<p>>, err |-> FALSE]

\* regenerate, newValue being what dataType.generate() returned
regenerate(d, v, variableSpecializerPath, newValue) ==
    LET p == addResult(variableSpecializerPath, v, newValue)
    IN  [given |-> p, yielded |-> <<p>>, err |-> FALSE]

\* A regenerateAndMemorize that forgets to memorize.
regenerateAndMemorize_forgets(d, v, variableSpecializerPath, newValue) ==
    regenerate(d, v, variableSpecializerPath, newValue)

\* regenerateAndMemorize, newValue being what dataType.generate() returned
regenerateAndMemorize(d, v, variableSpecializerPath, newValue) ==
    LET m == [variableSpecializerPath EXCEPT !.memory = memorize(@, v, newValue)]
        p == addResult(m, v, newValue)
    IN  [given |-> p, yielded |-> <<p>>, err |-> FALSE]

(***************************************************************************)
(* The Data machine: one leaf under test (f1) and a second variable (f2)   *)
(* whose entries in the Memory and in the results must stay as they are.   *)
(***************************************************************************)
DVars == {"f1", "f2"}

\* The types f1 is declared with: (minSize, maxSize) and the parse predicate.
DTypes ==
    { [minSize |-> 0, maxSize |-> NoSize, kind |-> "any"],
      [minSize |-> 1, maxSize |-> 3, kind |-> "lead1"],
      [minSize |-> 1, maxSize |-> NoSize, kind |-> "unit"],
      [minSize |-> 2, maxSize |-> 2, kind |-> "any"] }

\* The fixed values f1 is declared with: none, or a value of its type.
DCurrentValues(dataType) ==
    {NoneV} \cup ({<<1>>, <<0, 1>>, <<1, 0>>} \cap Generated(dataType))

NoOp == [name |-> "none", var |-> "f1", err |-> FALSE]

\* A Data leaf f1 of the given type and value, and a path whose Memory holds
\* nothing for f1 and other for f2, and whose relations refuse the results
\* in refused.
DStartRefusing(dataType, currentValue, content, other, refused) ==
    /\ data = [v \in DVars |->
                 IF v = "f1"
                 THEN [dataType |-> dataType, currentValue |-> currentValue]
                 ELSE [dataType |-> [minSize |-> 0, maxSize |-> NoSize, kind |-> "any"],
                       currentValue |-> NoneV]]
    /\ dpath = [memory |-> [v \in DVars |-> IF v = "f2" THEN other ELSE NoneV],
                results |-> [v \in DVars |-> NoneV],
                content |-> content,
                refused |-> refused]
    /\ dpathId = 0
    /\ dyield = <<>>
    /\ dop = [NoOp EXCEPT !.name = "init"] @@ [before |-> dpath]
    /\ dgen = [v \in DVars |-> [value |-> NoneV, pathId |-> 0]]

\* The same on a path no relation is waiting on.
DStart(dataType, currentValue, content, other) ==
    DStartRefusing(dataType, currentValue, content, other, {})

\* What the relations waiting on the path of a parse session refuse: nothing,
\* or one value of f1.
DRefused == {{}, {<<"f1", <<1>>>>}}

\* A parse session: f1 and the content handed to it.
DInitParse ==
    \E dataType \in DTypes, content \in Bits(MaxLen), other \in {NoneV, <<1>>} :
      \E currentValue \in DCurrentValues(dataType), refused \in DRefused :
        DStartRefusing(dataType, currentValue, content, other, refused)

\* The types f1 is declared with in a specialize session, where only what
\* generate() can return matters.
DSpecializeTypes == {dataType \in DTypes : dataType.maxSize # NoSize}

\* A specialize session: f1 and a new Memory.
DInitSpecialize ==
    \E dataType \in DSpecializeTypes, other \in {NoneV, <<1>>} :
      \E currentValue \in DCurrentValues(dataType) :
        DStart(dataType, currentValue, <<>>, other)

\* The Memory of the paths isDefined is asked about: none attached, or one
\* that holds or does not hold a value for f1 and for f2.
DMemories ==
    {NoMemory} \cup [DVars -> {NoneV, <<1>>}]

\* A Data leaf f1 and a path as isDefined may be handed one, with or without
\* a Memory.
DInitDefined ==
    \E dataType \in DTypes, memory \in DMemories :
      \E currentValue \in DCurrentValues(dataType) :
        /\ data = [v \in DVars |->
                     IF v = "f1"
                     THEN [dataType |-> dataType, currentValue |-> currentValue]
                     ELSE [dataType |-> [minSize |-> 0, maxSize |-> NoSize, kind |-> "any"],
                           currentValue |-> NoneV]]
        /\ dpath = [memory |-> memory,
                    results |-> [v \in DVars |-> NoneV],
                    content |-> <<>>,
                    refused |-> {}]
        /\ dpathId = 0
        /\ dyield = <<>>
        /\ dop = [NoOp EXCEPT !.name = "init"] @@ [before |-> dpath]
        /\ dgen = [v \in DVars |-> [value |-> NoneV, pathId |-> 0]]

\* The Data machine when a specification does not exercise it.
DIdle == DStart([minSize |-> 0, maxSize |-> NoSize, kind |-> "any"], NoneV, <<>>, NoneV)

\* What every Data action records: the operation, the path as it was, the
\* path as it is now and what was yielded.
DRecord(name, v, r) ==
    /\ dop' = [name |-> name, var |-> v, err |-> r.err, before |-> dpath]
    /\ dpath' = r.given
    /\ dyield' = r.yielded

\* data.domainCMP(parsingPath)
DDomainCMP(v) ==
    /\ DRecord("domainCMP", v, domainCMP(data[v], v, dpath))
    /\ UNCHANGED <<data, dpathId, dgen, dothers>>

\* data.valueCMP(parsingPath)
DValueCMP(v) ==
    /\ DRecord("valueCMP", v, valueCMP(data[v], v, dpath))
    /\ UNCHANGED <<data, dpathId, dgen, dothers>>

\* data.learn(parsingPath)
DLearn(v) ==
    /\ DRecord("learn", v, learn(data[v], v, dpath))
    /\ UNCHANGED <<data, dpathId, dgen, dothers>>

\* data.use(variableSpecializerPath)
DUse(v) ==
    /\ DRecord("use", v, use(data[v], v, dpath))
    /\ UNCHANGED <<data, dpathId, dgen, dothers>>

\* data.regenerate(variableSpecializerPath)
DRegenerate(v) ==
    /\ \E newValue \in Generated(data[v].dataType) :
          DRecord("regenerate", v, regenerate(data[v], v, dpath, newValue))
    /\ UNCHANGED <<data, dpathId, dgen, dothers>>

\* data.regenerateAndMemorize(variableSpecializerPath)
DRegenerateAndMemorize(v) ==
    /\ \E newValue \in Generated(data[v].dataType) :
          /\ DRecord("regenerateAndMemorize", v,
                     regenerateAndMemorize(data[v], v, dpath, newValue))
          /\ dgen' = [dgen EXCEPT ![v] = [value |-> newValue, pathId |-> dpathId]]
    /\ UNCHANGED <<data, dpathId, dothers>>

\* data.isDefined(path)
DIsDefined(v) ==
    /\ LET r == isDefined(data[v], v, dpath)
       IN  /\ dop' = [name |-> "isDefined", var |-> v, err |-> r.err,
                      before |-> dpath, ret |-> r.ret]
           /\ dpath' = r.given
           /\ dyield' = r.yielded
    /\ UNCHANGED <<data, dpathId, dgen, dothers>>

\* The caller goes on with branch k of a parse: a path with a Memory of its
\* own, which is no longer the Memory regenerateAndMemorize wrote to.
DAdopt(k) ==
    /\ dop.name \in {"domainCMP", "learn"}
    /\ k \in 1..Len(dyield)
    /\ dyield[k] # dpath
    /\ dpath' = dyield[k]
    /\ dyield' = <<>>
    /\ dop' = [NoOp EXCEPT !.name = "adopt"] @@ [before |-> dpath]
    /\ dgen' = [v \in DVars |-> [value |-> NoneV, pathId |-> 0]]
    /\ UNCHANGED <<data, dpathId, dothers>>

\* A later specialization of the session: a new path around the same Memory.
DNewPath ==
    /\ dpathId < MaxPaths
    /\ dpathId' = dpathId + 1
    /\ dpath' = [dpath EXCEPT !.results = [v \in DVars |-> NoneV]]
    /\ dyield' = <<>>
    /\ dop' = [NoOp EXCEPT !.name = "newPath"] @@ [before |-> dpath]
    /\ UNCHANGED <<data, dgen, dothers>>

(***************************************************************************)
(* Symbol: specialize().  The fields are numbered in Field order; a field  *)
(* is a Data leaf (its type and its fixed value, if any) or a Size         *)
(* relationship over target fields.                                        *)
(***************************************************************************)
\* The integer n as w bits, most significant first.
IntToBits(n, w) == [i \in 1..w |-> (n \div Pow2(w - i)) % 2]

\* The integer a bitarray spells, most significant bit first.
RECURSIVE BitsToInt(_)
BitsToInt(bits) ==
    IF bits = <<>> THEN 0
    ELSE 2 * BitsToInt(SubSeq(bits, 1, Len(bits) - 1)) + bits[Len(bits)]

\* The bits in reverse order.
Reverse(bits) == [i \in 1..Len(bits) |-> bits[Len(bits) + 1 - i]]

\* A conversion to bytes that reads each byte least significant bit first.
BitArrayToRaw_littleEndian(bits) ==
    LET padded == tobytes(bits)
    IN  [k \in 1..(Len(padded) \div 8) |->
            BitsToInt(Reverse(SubSeq(padded, 8 * (k - 1) + 1, 8 * k)))]

\* TypeConverter.convert(bits, BitArray, Raw): the bytes of bitarray.tobytes().
BitArrayToRaw(bits) ==
    LET padded == tobytes(bits)
    IN  [k \in 1..(Len(padded) \div 8) |->
            BitsToInt(SubSeq(padded, 8 * (k - 1) + 1, 8 * k))]

\* seqs[1] + seqs[2] + ...
RECURSIVE Flatten(_)
Flatten(seqs) == IF seqs = <<>> THEN <<>> ELSE Head(seqs) \o Flatten(Tail(seqs))

\* The types of the fields: one byte, half a byte, one or two bytes.
SByte == [minSize |-> 8, maxSize |-> 8, kind |-> "any"]
SNibble == [minSize |-> 4, maxSize |-> 4, kind |-> "any"]
SBytes == [minSize |-> 8, maxSize |-> 16, kind |-> "any"]

\* The bit vectors the fields of the model deal in: 'a', 'x', 'xy', two half
\* bytes, and 'm' for what a supplied Memory holds.
SValues ==
    { IntToBits(97, 8), IntToBits(120, 8), IntToBits(120, 8) \o IntToBits(121, 8),
      <<1, 0, 1, 0>>, <<0, 1, 1, 0>> }

SMemValue == IntToBits(109, 8)

\* The preset a caller passes: half a byte of ones, which no type here but
\* SNibble admits.
SPreset == <<1, 1, 1, 1>>

\* AbstractType.generate for the types of the fields.
SGenerated(dataType) ==
    {b \in SValues :
        /\ dataType.minSize <= Len(b)
        /\ Len(b) <= dataType.maxSize
        /\ canParse(dataType, b)}

\* Field(domain): the Data leaves a field is declared with.
SDataFields ==
    { [kind |-> "data", dataType |-> SByte, currentValue |-> IntToBits(97, 8),
       targets |-> {}],
      [kind |-> "data", dataType |-> SNibble, currentValue |-> <<1, 0, 1, 0>>,
       targets |-> {}],
      [kind |-> "data", dataType |-> SBytes, currentValue |-> NoneV,
       targets |-> {}] }

\* Field(domain=Size(target)): a relationship field of one byte.
SSizeFields(n) ==
    { [kind |-> "size", dataType |-> SByte, currentValue |-> NoneV,
       targets |-> {j}] : j \in 1..n }

\* Symbol(fields=[...]): the lists of one to MaxFields fields; no Size field
\* is its own target.
SFieldLists ==
    UNION { {fs \in [1..n -> SDataFields \cup SSizeFields(n)] :
                \A i \in 1..n : i \notin fs[i].targets} : n \in 1..MaxFields }

\* Size: the number of whole bytes of the targets' bits, as one byte.
Size_calculate(bits) == IntToBits((Len(bits) \div 8) % 256, 8)

\* The bits of the target fields, in Field order.
TargetBits(results, targets) ==
    Flatten([i \in 1..Len(results) |-> IF i \in targets THEN results[i] ELSE <<>>])

\* MessageSpecializer(memory, presets): the one SpecializingPath of an
\* invocation, around the Memory supplied or, without one, a new Memory.
SpecializingPath(n, memory, presets) ==
    [memory |-> IF memory = NoMemory THEN [i \in 1..n |-> NoneV] ELSE memory,
     results |-> [i \in 1..n |-> NoneV],
     presets |-> presets]

\* A specialize that does not hand the presets on.
specialize_dropsPresets(sym, memory, presets) ==
    SpecializingPath(Len(sym.fields), memory, [i \in 1..Len(sym.fields) |-> NoneV])

\* Symbol.specialize: msg = MessageSpecializer(memory=memory, presets=presets)
specialize(sym, memory, presets) ==
    SpecializingPath(Len(sym.fields), memory, presets)

\* SpecializingPath.generatedContent: the results of the fields, in Field
\* order, one after the other.
generatedContent(path) == Flatten(path.results)

\* A specialize that returns each byte least significant bit first.
specialize_return_littleEndian(path) ==
    BitArrayToRaw_littleEndian(generatedContent(path))

\* Symbol.specialize: what it returns once the path is complete.
specialize_return(path) == BitArrayToRaw(generatedContent(path))

\* The fields the first pass fixes: those with a preset and the Data leaves.
Independent(sym, path, i) ==
    path.presets[i] # NoneV \/ sym.fields[i].kind = "data"

Unresolved(sym, path, independent) ==
    {i \in 1..Len(sym.fields) :
        /\ path.results[i] = NoneV
        /\ Independent(sym, path, i) = independent}

Lowest(S) == CHOOSE i \in S : \A j \in S : i <= j

\* An engine of one pass: the fields as they come, relationships included.
NextField_fieldOrder(sym, path) ==
    Lowest(Unresolved(sym, path, TRUE) \cup Unresolved(sym, path, FALSE))

\* The field the engine resolves next: the independent fields in Field
\* order first, then the relationship fields in Field order.
NextField(sym, path) ==
    IF Unresolved(sym, path, TRUE) # {}
    THEN Lowest(Unresolved(sym, path, TRUE))
    ELSE Lowest(Unresolved(sym, path, FALSE))

\* Every field has its result.
Complete(path) == \A i \in 1..Len(path.results) : path.results[i] # NoneV

\* The first pass on field i, newValue being what generate() would return:
\* the preset if there is one, else use(), else regenerate().
resolveIndependent(sym, path, i, newValue) ==
    IF path.presets[i] # NoneV
    THEN addResult(path, i, path.presets[i])
    ELSE LET r == use(sym.fields[i], i, path)
         IN  IF r.yielded # <<>> THEN r.given
             ELSE regenerate(sym.fields[i], i, path, newValue).given

\* PyCRC's CRC16 on one byte: the byte is xored into the low byte, then
\* eight shifts to the right, each followed by a xor with 0xA001 when the
\* bit that fell off was 1.
RECURSIVE CRC16_shift(_, _)
CRC16_shift(crc, n) ==
    IF n = 0 THEN crc
    ELSE CRC16_shift(IF crc % 2 = 1 THEN Xor(crc \div 2, 40961) ELSE crc \div 2,
                     n - 1)

\* PyCRC's CRC16().calculate on the bytes msg[k..], from the value crc.
RECURSIVE PyCRC16(_, _, _)
PyCRC16(msg, k, crc) ==
    IF k > Len(msg) THEN crc
    ELSE PyCRC16(msg, k + 1, CRC16_shift(Xor(crc, msg[k]), 8))

\* A checksum that starts from 0xFFFF, as the Modbus variant does.
CRC16_calculate_modbus(msg) == PyCRC16(msg, 1, 65535)

\* CRC16.calculate
CRC16_calculate(msg) == PyCRC16(msg, 1, 0)

\* CRC16.getBitSize: UnitSize.SIZE_16.value
CRC16_getBitSize == 16

\* Checksum: the value of the relationship field, the checksum of the bytes
\* of the targets as getBitSize() bits, least significant byte first.
Checksum_compute(bits) ==
    LET c == CRC16_calculate(BitArrayToRaw(bits))
    IN  IntToBits(c % 256, 8) \o IntToBits(c \div 256, CRC16_getBitSize - 8)

\* The second pass on relationship field i, all its targets being resolved.
resolveRelation(sym, path, i) ==
    IF sym.fields[i].kind = "crc16"
    THEN addResult(path, i, Checksum_compute(TargetBits(path.results, sym.fields[i].targets)))
    ELSE addResult(path, i, Size_calculate(TargetBits(path.results, sym.fields[i].targets)))

\* TypeConverter.convert(bytes, Raw, BitArray): eight bits per byte, most
\* significant first.
RawToBitArray(bytes) == Flatten([k \in 1..Len(bytes) |-> IntToBits(bytes[k], 8)])

\* The parser on fields i.. of a Symbol of Data leaves: each field is matched
\* by valueCMP against what is left of the content, and the next field goes
\* on after the bits it took.  The result tells how far the parse got.
RECURSIVE parseFields(_, _, _)
parseFields(fs, i, parsingPath) ==
    IF i > Len(fs)
    THEN [status |-> "parsed", results |-> parsingPath.results,
          remaining |-> parsingPath.content]
    ELSE LET r == valueCMP(fs[i], i, parsingPath)
         IN  IF r.err \/ r.yielded = <<>>
             THEN [status |-> "failed", results |-> parsingPath.results,
                   remaining |-> parsingPath.content]
             ELSE LET p == r.yielded[1]
                  IN  parseFields(fs, i + 1,
                          [p EXCEPT !.content =
                              SubSeq(@, Len(p.results[i]) + 1, Len(@))])

\* The Symbols made of Data leaves that each have a fixed value.
FixedLeaves(sym) ==
    \A i \in 1..Len(sym.fields) :
        sym.fields[i].kind = "data" /\ sym.fields[i].currentValue # NoneV

\* AbstractField.abstract(data, [symbol]): the bytes are parsed against the
\* Symbol on a new path with a new Memory.
abstract(bytes, sym) ==
    parseFields(sym.fields, 1,
                [memory |-> [i \in 1..Len(sym.fields) |-> NoneV],
                 results |-> [i \in 1..Len(sym.fields) |-> NoneV],
                 content |-> RawToBitArray(bytes)])

\* The Memory a caller supplies: none, or one that holds a value for one
\* Data field.
SMemories(fs) ==
    {NoMemory} \cup
    { [i \in 1..Len(fs) |-> IF i = k THEN SMemValue ELSE NoneV] :
        k \in {j \in 1..Len(fs) : fs[j].kind = "data"} }

\* The presets a caller supplies: none, or a preset for one field.
SPresets(fs) ==
    { [i \in 1..Len(fs) |-> IF i = k THEN SPreset ELSE NoneV] : k \in 0..Len(fs) }

NoParse == [status |-> "idle", results |-> <<>>, remaining |-> <<>>]

\* A Symbol of the given fields, specialize() not called yet.
SStart(fs) ==
    /\ symbol = [name |-> "Symbol", fields |-> fs]
    /\ spath = SpecializingPath(Len(fs), NoMemory, [i \in 1..Len(fs) |-> NoneV])
    /\ sargs = [memory |-> NoMemory, presets |-> [i \in 1..Len(fs) |-> NoneV]]
    /\ spc = "new"
    /\ sout = NoneV
    /\ sorder = <<>>
    /\ sprs = NoParse

SInit == \E fs \in SFieldLists : SStart(fs)

\* Field(Raw(b'\xaa\xbb')), Field(Raw(b'a')) and a field of one or two bytes
\* without a value.
SRawFields ==
    { [kind |-> "data", dataType |-> SBytes, currentValue |-> v, targets |-> {}] :
        v \in {IntToBits(170, 8) \o IntToBits(187, 8), IntToBits(97, 8), NoneV} }

\* Field(CRC16(targets)): a relationship field of two bytes.
SCRC16Fields(n) ==
    { [kind |-> "crc16", dataType |-> SBytes, currentValue |-> NoneV,
       targets |-> T] : T \in (SUBSET (1..n)) \ {{}} }

\* Symbol(fields=[...]) with at least one CRC16 field, the targets of the
\* CRC16 fields being Data fields.
SChecksumFieldLists ==
    UNION { {fs \in [1..n -> SRawFields \cup SCRC16Fields(n)] :
                /\ \E i \in 1..n : fs[i].kind = "crc16"
                /\ \A i \in 1..n : \A j \in fs[i].targets : fs[j].kind = "data"} :
            n \in 2..MaxFields }

SInitChecksum == \E fs \in SChecksumFieldLists : SStart(fs)

\* The Symbol machine when a specification does not exercise it.
SIdle == SStart([i \in 1..1 |->
                   [kind |-> "data", dataType |-> SByte,
                    currentValue |-> IntToBits(97, 8), targets |-> {}]])

\* symbol.specialize(memory, presets) is called.
SSpecialize ==
    /\ spc = "new"
    /\ \E memory \in SMemories(symbol.fields), presets \in SPresets(symbol.fields) :
          /\ sargs' = [memory |-> memory, presets |-> presets]
          /\ spath' = specialize(symbol, memory, presets)
    /\ spc' = "running"
    /\ UNCHANGED <<symbol, sout, sorder, sprs, sothers>>

\* The engine resolves an independent field.
SResolveIndependent ==
    /\ spc = "running"
    /\ ~Complete(spath)
    /\ LET i == NextField(symbol, spath)
       IN  /\ Independent(symbol, spath, i)
           /\ \E newValue \in SGenerated(symbol.fields[i].dataType) :
                 spath' = resolveIndependent(symbol, spath, i, newValue)
           /\ sorder' = Append(sorder, i)
    /\ UNCHANGED <<symbol, sargs, spc, sout, sprs, sothers>>

\* The engine resolves a relationship field whose targets all have a value.
SResolveRelation ==
    /\ spc = "running"
    /\ ~Complete(spath)
    /\ LET i == NextField(symbol, spath)
       IN  /\ ~Independent(symbol, spath, i)
           /\ \A j \in symbol.fields[i].targets : spath.results[j] # NoneV
           /\ spath' = resolveRelation(symbol, spath, i)
           /\ sorder' = Append(sorder, i)
    /\ UNCHANGED <<symbol, sargs, spc, sout, sprs, sothers>>

\* The engine meets a relationship one of whose targets has no value:
\* CyclicRelationship, and specialize() returns nothing.
SCyclicRelationship ==
    /\ spc = "running"
    /\ ~Complete(spath)
    /\ LET i == NextField(symbol, spath)
       IN  /\ ~Independent(symbol, spath, i)
           /\ \E j \in symbol.fields[i].targets : spath.results[j] = NoneV
    /\ spc' = "error"
    /\ UNCHANGED <<symbol, sargs, spath, sout, sorder, sprs, sothers>>

\* specialize() returns the bytes of the generated content.
SReturn ==
    /\ spc = "running"
    /\ Complete(spath)
    /\ sout' = specialize_return(spath)
    /\ spc' = "done"
    /\ UNCHANGED <<symbol, sargs, spath, sorder, sprs, sothers>>

\* AbstractField.abstract(symbol.specialize(...), [symbol]), for a Symbol
\* made of Data leaves with fixed values.
SAbstract ==
    /\ spc = "done"
    /\ sprs.status = "idle"
    /\ FixedLeaves(symbol)
    /\ sprs' = abstract(sout, symbol)
    /\ UNCHANGED <<symbol, sargs, spath, spc, sout, sorder, sothers>>

ChecksumNext ==
    \/ SSpecialize
    \/ SResolveIndependent
    \/ SResolveRelation
    \/ SReturn

SymbolNext ==
    \/ SAbstract
    \/ SSpecialize
    \/ SResolveIndependent
    \/ SResolveRelation
    \/ SCyclicRelationship
    \/ SReturn

(***************************************************************************)
(* Symbol: equality and hash.  A name is the sequence of its characters;   *)
(* an object is known by its class, its name, its fields and its messages. *)
(***************************************************************************)
ENames == { <<"S">>, <<"a", "b">>, <<"b", "a">>, <<"a", "b", "b">> }

EFieldLists ==
    { <<[kind |-> "data", dataType |-> SByte, currentValue |-> IntToBits(97, 8),
         targets |-> {}]>>,
      <<[kind |-> "data", dataType |-> SBytes, currentValue |-> NoneV,
         targets |-> {}]>> }

EMessageLists == { <<>>, <<"m1">> }

\* Symbol(fields, messages, name)
ESymbols ==
    [class : {"Symbol"}, name : ENames, fields : EFieldLists, messages : EMessageLists]

\* None, and an object that has a name and is not a Symbol.
ENone == [class |-> "NoneType", name |-> <<>>, fields |-> <<>>, messages |-> <<>>]

EFields == [class : {"Field"}, name : ENames, fields : {<<>>}, messages : {<<>>}]

\* isinstance(other, Symbol)
IsSymbol(other) == other.class = "Symbol"

\* An __eq__ that compares the fields as well.
Symbol_eq_deep(self, other) ==
    IF ~IsSymbol(other) THEN FALSE
    ELSE IF other = ENone THEN FALSE
    ELSE self.name = other.name /\ self.fields = other.fields

\* Symbol.__eq__
Symbol_eq(self, other) ==
    IF ~IsSymbol(other) THEN FALSE
    ELSE IF other = ENone THEN FALSE
    ELSE self.name = other.name

\* Symbol.__ne__
Symbol_ne(self, other) ==
    IF other = ENone THEN TRUE
    ELSE IF ~IsSymbol(other) THEN TRUE
    ELSE other.name # self.name

\* frozenset(self.name): the set of the characters of the name.
frozenset(name) == {name[i] : i \in DOMAIN name}

\* Symbol.__hash__: hash(frozenset(self.name)); the hash of a frozenset is
\* known here by the frozenset it is the hash of.
Symbol_hash(self) == frozenset(self.name)

NoResult == [eq |-> <<>>, ne |-> <<>>, hash |-> <<>>]

\* A Symbol and what it is compared with.
EStart(a, b) ==
    /\ ea = a
    /\ eb = b
    /\ eres = NoResult

EInit == \E a \in ESymbols, b \in ESymbols \cup EFields \cup {ENone} : EStart(a, b)

\* The comparison machine when a specification does not exercise it.
EIdle == EStart(CHOOSE a \in ESymbols : a.name = <<"S">> /\ a.messages = <<>>
                                         /\ a.fields[1].currentValue = NoneV,
                ENone)

\* a == b
EEq ==
    /\ eres.eq = <<>>
    /\ eres' = [eres EXCEPT !.eq = <<Symbol_eq(ea, eb)>>]
    /\ UNCHANGED <<ea, eb, eothers>>

\* a != b
ENe ==
    /\ eres.ne = <<>>
    /\ eres' = [eres EXCEPT !.ne = <<Symbol_ne(ea, eb)>>]
    /\ UNCHANGED <<ea, eb, eothers>>

\* hash(a), hash(b) for two Symbols
EHash ==
    /\ eres.hash = <<>>
    /\ IsSymbol(eb)
    /\ eres' = [eres EXCEPT !.hash = <<Symbol_hash(ea), Symbol_hash(eb)>>]
    /\ UNCHANGED <<ea, eb, eothers>>

EqualityNext ==
    \/ EEq
    \/ ENe
    \/ EHash

(***************************************************************************)
(* DeterministIntegerMutator.__init__: the sanity checks and the interval. *)
(***************************************************************************)
\* Integer(unitSize, sign, interval): interval <<>> stands for no interval.
CIntegers ==
    { [family |-> "Integer", unitSize |-> u, signed |-> sg, interval |-> iv] :
        u \in {8, 16}, sg \in BOOLEAN, iv \in {<<>>, <<-10, 5>>, <<3, 100>>} }

\* The Integer types whose interval lies within what they can store.
CIntegerTypes ==
    {t \in CIntegers : t.interval = <<>> \/ t.signed \/ t.interval[1] >= 0}

Max(a, b) == IF a >= b THEN a ELSE b

\* Integer.getMinStorageValue / getMaxStorageValue
getMinStorageValue(t) == IF t.signed THEN -Pow2(t.unitSize - 1) ELSE 0

getMaxStorageValue(t) ==
    IF t.signed THEN Pow2(t.unitSize - 1) - 1 ELSE Pow2(t.unitSize) - 1

\* Integer.getMinValue / getMaxValue: the bounds of the values of the type.
getMinValue(t) == IF t.interval = <<>> THEN getMinStorageValue(t) ELSE t.interval[1]

getMaxValue(t) == IF t.interval = <<>> THEN getMaxStorageValue(t) ELSE t.interval[2]

\* The domains the constructor is handed: None, an object that is not a
\* variable, a variable without dataType, a Data of a type that is no
\* Integer, a Data of an Integer type.
CDomains ==
    { [class |-> "NoneType", dataType |-> <<>>],
      [class |-> "Field", dataType |-> <<>>],
      [class |-> "Agg", dataType |-> <<>>],
      [class |-> "Data", dataType |-> [family |-> "Raw"]] }
    \cup { [class |-> "Data", dataType |-> t] : t \in CIntegerTypes }

\* The integers an explicit interval is made of.
CEnds == {-40000, -200, -10, 0, 5, 127, 255, 300, 70000}

\* The interval argument: None, the two constants of Mutator, a tuple (its
\* elements are integers or not), or anything else.
CIntervals ==
    { [kind |-> k, elems |-> <<>>] : k \in {"None", "DEFAULT_INTERVAL", "FULL_INTERVAL", "other"} }
    \cup { [kind |-> "tuple", elems |-> <<[isInt |-> TRUE, v |-> a], [isInt |-> TRUE, v |-> b]>>] :
              a \in CEnds, b \in CEnds }
    \cup { [kind |-> "tuple", elems |-> <<[isInt |-> TRUE, v |-> 0], [isInt |-> FALSE, v |-> 0]>>],
           [kind |-> "tuple", elems |-> <<[isInt |-> TRUE, v |-> 0], [isInt |-> TRUE, v |-> 5],
                                          [isInt |-> TRUE, v |-> 9]>>] }

\* isinstance(interval, tuple) and len(interval) == 2 and both are int
IsIntPair(interval) ==
    /\ interval.kind = "tuple"
    /\ Len(interval.elems) = 2
    /\ interval.elems[1].isInt
    /\ interval.elems[2].isInt

\* ng tells whether self._ng, the list of values, has been created.
CError == [tag |-> "error", minValue |-> 0, maxValue |-> 0, ng |-> FALSE]

\* The interval of a constructor that takes an explicit interval as it is.
resolveInterval_unclamped(dataType, interval) ==
    IF IsIntPair(interval)
    THEN [tag |-> "ok", minValue |-> interval.elems[1].v,
          maxValue |-> interval.elems[2].v, ng |-> FALSE]
    ELSE IF interval.kind \in {"DEFAULT_INTERVAL", "None"}
    THEN [tag |-> "ok", minValue |-> getMinValue(dataType),
          maxValue |-> getMaxValue(dataType), ng |-> FALSE]
    ELSE IF interval.kind = "FULL_INTERVAL"
    THEN [tag |-> "ok", minValue |-> getMinStorageValue(dataType),
          maxValue |-> getMaxStorageValue(dataType), ng |-> FALSE]
    ELSE CError

\* __init__: find min and max potential values for interval
resolveInterval(dataType, interval) ==
    IF IsIntPair(interval)
    THEN [tag |-> "ok",
          minValue |-> Max(interval.elems[1].v, getMinStorageValue(dataType)),
          maxValue |-> Min(interval.elems[2].v, getMaxStorageValue(dataType)),
          ng |-> FALSE]
    ELSE IF interval.kind \in {"DEFAULT_INTERVAL", "None"}
    THEN [tag |-> "ok", minValue |-> getMinValue(dataType),
          maxValue |-> getMaxValue(dataType), ng |-> FALSE]
    ELSE IF interval.kind = "FULL_INTERVAL"
    THEN [tag |-> "ok", minValue |-> getMinStorageValue(dataType),
          maxValue |-> getMaxStorageValue(dataType), ng |-> FALSE]
    ELSE CError

\* __init__: self._ng = DeterministGenerator() and createValues, reached only
\* when nothing was raised before.
createValues(r) == IF r.tag = "ok" THEN [r EXCEPT !.ng = TRUE] ELSE r

\* A constructor that accepts a Data of any type, with the interval (0, 0)
\* when the type is no Integer.
mutator_init_anyType(domain, interval) ==
    IF domain.class = "NoneType" THEN CError
    ELSE IF domain.class \notin {"Data", "Agg"} THEN CError
    ELSE IF domain.class # "Data" THEN CError
    ELSE IF domain.dataType.family # "Integer"
    THEN [tag |-> "ok", minValue |-> 0, maxValue |-> 0, ng |-> TRUE]
    ELSE createValues(resolveInterval(domain.dataType, interval))

\* __init__: the sanity checks on the domain, then the interval, then the
\* list of values.
mutator_init(domain, interval) ==
    IF domain.class = "NoneType" THEN CError
    ELSE IF domain.class \notin {"Data", "Agg"} THEN CError
    ELSE IF domain.class # "Data" THEN CError
    ELSE IF domain.dataType.family # "Integer" THEN CError
    ELSE createValues(resolveInterval(domain.dataType, interval))

\* The arguments of a constructor call that has not been made yet.
CStart(domain, interval) ==
    /\ cdomain = domain
    /\ cinterval = interval
    /\ cmut = [tag |-> "none", minValue |-> 0, maxValue |-> 0, ng |-> FALSE]

CInit == \E domain \in CDomains, interval \in CIntervals : CStart(domain, interval)

\* The constructor machine when a specification does not exercise it.
CIdle == CStart([class |-> "NoneType", dataType |-> <<>>],
                [kind |-> "None", elems |-> <<>>])

\* DeterministIntegerMutator(domain, interval)
CConstruct ==
    /\ cmut.tag = "none"
    /\ cmut' = mutator_init(cdomain, cinterval)
    /\ UNCHANGED <<cdomain, cinterval, cothers>>

ConstructNext == CConstruct

(***************************************************************************)
(* Data.currentValue: the property, with the bit vectors as objects.       *)
(***************************************************************************)
\* A bit vector is an object of the heap, named by its index; 0 names None.
\* bitarray.copy(): a new object with the same bits.
copy(heap, ref) == [heap |-> Append(heap, heap[ref]), ref |-> Len(heap) + 1]

\* A setter that keeps the object it is given.
currentValue_setter_alias(heap, ref) == [heap |-> heap, ref |-> ref]

\* currentValue.setter: the heap and self.__currentValue after the call.
currentValue_setter(heap, ref) ==
    IF ref # 0 THEN copy(heap, ref) ELSE [heap |-> heap, ref |-> 0]

\* A getter that hands out the object the Data stores.
currentValue_getter_alias(heap, cur) == [heap |-> heap, ref |-> cur]

\* currentValue (getter): the heap after the call and the object returned.
currentValue_getter(heap, cur) ==
    IF cur # 0 THEN copy(heap, cur) ELSE [heap |-> heap, ref |-> 0]

\* The bit vectors a caller builds.
VBitArrays == Bits(2)

\* What was last given to the setter: the bits it had then, and the object.
VGiven(heap, ref) ==
    [value |-> IF ref = 0 THEN NoneV ELSE heap[ref], arg |-> ref]

\* Data(dataType, originalValue=ref): __init__ assigns through the setter.
VStart(heap, ref) ==
    LET r == currentValue_setter(heap, ref)
    IN  /\ vheap = r.heap
        /\ vcur = r.ref
        /\ vheld = IF ref = 0 THEN {} ELSE {<<ref, "built">>}
        /\ vexpect = VGiven(heap, ref)

VInit == VStart(<<>>, 0) \/ \E b \in VBitArrays : VStart(<<b>>, 1)

\* The property when a specification does not exercise it.
VIdle == VStart(<<>>, 0)

\* b = bitarray(...): the caller builds a bit vector.
VNew(b) ==
    /\ Len(vheap) < MaxObjects
    /\ vheap' = Append(vheap, b)
    /\ vheld' = vheld \cup {<<Len(vheap) + 1, "built">>}
    /\ UNCHANGED <<vcur, vexpect, vothers>>

\* data.currentValue = ref, ref a bit vector the caller holds, or None.
VSet(ref) ==
    /\ ref = 0 \/ Len(vheap) < MaxObjects
    /\ LET r == currentValue_setter(vheap, ref)
       IN  /\ vheap' = r.heap
           /\ vcur' = r.ref
    /\ vexpect' = VGiven(vheap, ref)
    /\ UNCHANGED <<vheld, vothers>>

\* b = data.currentValue: the caller keeps what the getter returned.
VGet ==
    /\ vcur = 0 \/ Len(vheap) < MaxObjects
    /\ LET r == currentValue_getter(vheap, vcur)
       IN  /\ vheap' = r.heap
           /\ vheld' = IF r.ref = 0 THEN vheld ELSE vheld \cup {<<r.ref, "read">>}
    /\ UNCHANGED <<vcur, vexpect, vothers>>

\* b[k] = not b[k] on a bit vector the caller holds.
VInvert(ref, k) ==
    /\ k \in 1..Len(vheap[ref])
    /\ vheap' = [vheap EXCEPT ![ref][k] = 1 - @]
    /\ UNCHANGED <<vcur, vheld, vexpect, vothers>>

\* b.clear() on a bit vector the caller holds.
VClear(ref) ==
    /\ vheap[ref] # <<>>
    /\ vheap' = [vheap EXCEPT ![ref] = <<>>]
    /\ UNCHANGED <<vcur, vheld, vexpect, vothers>>

\* The identities of the bit vectors the caller holds.
VHeld == {h[1] : h \in vheld}

ValueNext ==
    \/ \E b \in VBitArrays : VNew(b)
    \/ \E ref \in VHeld \cup {0} : VSet(ref)
    \/ VGet
    \/ \E ref \in VHeld, k \in 1..2 : VInvert(ref, k)
    \/ \E ref \in VHeld : VClear(ref)

(***************************************************************************)
(* AbstractChannel: the send limit.                                        *)
(***************************************************************************)
DEFAULT_WRITE_COUNTER_MAX == -1

\* __init__
AbstractChannel ==
    [writeCounter |-> 0, writeCounterMax |-> DEFAULT_WRITE_COUNTER_MAX,
     threaded_mode |-> FALSE, queue_output |-> <<>>]

\* setSendLimit (setWriteCounterMax)
setSendLimit(ch, maxValue) == [ch EXCEPT !.writeCounterMax = maxValue]

\* clearSendLimit (clearWriteCounter)
clearSendLimit(ch) ==
    [ch EXCEPT !.writeCounter = 0, !.writeCounterMax = DEFAULT_WRITE_COUNTER_MAX]

\* A test that refuses as soon as the counter has reached the limit.
limitReached_atLimit(ch) ==
    ch.writeCounterMax > 0 /\ ch.writeCounter >= ch.writeCounterMax

\* (writeCounterMax > 0) and (writeCounter > writeCounterMax)
limitReached(ch) ==
    ch.writeCounterMax > 0 /\ ch.writeCounter > ch.writeCounterMax

\* write_map: raises on the limit, else counts the call and hands packets to
\* writePacket: one without duration, as many as the duration lets through
\* with one.
write_map(ch, packets) ==
    IF limitReached(ch)
    THEN [ch |-> ch, outcome |-> "raised", packets |-> 0]
    ELSE [ch |-> [ch EXCEPT !.writeCounter = @ + 1], outcome |-> "sent",
          packets |-> packets]

\* write: the output queue in threaded mode, write_map otherwise.
write(ch, bytes, packets) ==
    IF ch.threaded_mode
    THEN [ch |-> [ch EXCEPT !.queue_output = Append(@, bytes)],
          outcome |-> "queued", packets |-> 0]
    ELSE write_map(ch, packets)

\* The limits setSendLimit is called with.
HLimits == {-1, 0, 1, 2}

NoWrite == [outcome |-> "none", max |-> DEFAULT_WRITE_COUNTER_MAX, packets |-> 0]

HInit ==
    /\ chan = AbstractChannel
    /\ hsent = [limit |-> 0, sends |-> 0]
    /\ hlast = NoWrite

\* The channel when a specification does not exercise it.
HIdle == HInit

\* channel.setSendLimit(maxValue)
HSetSendLimit(maxValue) ==
    /\ chan' = setSendLimit(chan, maxValue)
    /\ hsent' = IF chan.writeCounter = 0 /\ maxValue > 0
                THEN [limit |-> maxValue, sends |-> 0]
                ELSE [limit |-> 0, sends |-> 0]
    /\ UNCHANGED <<hlast, hothers>>

\* channel.clearSendLimit()
HClearSendLimit ==
    /\ chan' = clearSendLimit(chan)
    /\ hsent' = [limit |-> 0, sends |-> 0]
    /\ UNCHANGED <<hlast, hothers>>

\* channel.write(data), or channel.write(data, rate, duration) which sends
\* the data as often as the duration allows.
HWrite(packets) ==
    /\ chan.writeCounter < MaxWrites
    /\ LET r == write(chan, <<>>, packets)
       IN  /\ chan' = r.ch
           /\ hlast' = [outcome |-> r.outcome, max |-> chan.writeCounterMax,
                        packets |-> r.packets]
           /\ hsent' = IF r.outcome = "sent" /\ r.packets > 0
                       THEN [hsent EXCEPT !.sends = @ + 1]
                       ELSE hsent
    /\ UNCHANGED hothers

ChannelNext ==
    \/ \E maxValue \in HLimits : HSetSendLimit(maxValue)
    \/ HClearSendLimit
    \/ \E packets \in 0..MaxPackets : HWrite(packets)

(***************************************************************************)
(* AbstractChannel as a thread.  run() loops on the output queue and on    *)
(* read(); the caller's thread writes, sets the limit, flushes and stops.  *)
(* open, close, read and writePacket are abstract: a closed channel raises *)
(* on read and on writePacket, an open one reads data or times out, and    *)
(* sends or refuses with PermissionError.                                  *)
(***************************************************************************)
\* A get that takes the newest item.
queue_get_newest(q) == [data |-> q[Len(q)], rest |-> SubSeq(q, 1, Len(q) - 1)]

\* queue_output.get(): the oldest item, and the queue without it.
queue_get(q) == [data |-> Head(q), rest |-> Tail(q)]

\* isActive: not self.__stopEvent.is_set()
isActive(stopEvent) == ~stopEvent

\* A flush that does not wait.
flush_noWait(unfinished) == TRUE

\* flush: queue_output.join() returns once every item put on the queue has
\* been marked done.
flush(unfinished) == unfinished = 0

\* What read() does: on an open channel it returns data or times out, on a
\* closed one it raises.
read(open) == IF open THEN {"data", "timeout"} ELSE {"error"}

\* What writePacket does: on an open channel it sends or raises
\* PermissionError, on a closed one it raises another exception.
writePacket(open) == IF open THEN {"sent", "PermissionError"} ELSE {"error"}

\* The caller's thread before any flush(): mark is the number of items
\* enqueued when flush() was called, pending how many of them were not yet
\* marked done, seen the number handed to writePacket when it returned.
NoFlush == [pc |-> "idle", returned |-> FALSE, mark |-> 0, pending |-> 0, seen |-> 0]

\* __init__: the channel is closed, the thread not started.
TInit ==
    /\ tchan = AbstractChannel
    /\ tunfinished = 0
    /\ tstop = FALSE
    /\ topen = FALSE
    /\ tpc = "new"
    /\ tdata = 0
    /\ tlog = [writes |-> 0, enq |-> 0, written |-> <<>>, escaped |-> "none",
               denied |-> FALSE]
    /\ tsent = [limit |-> 0, sends |-> 0]
    /\ tlast = [outcome |-> "none", reached |-> FALSE]
    /\ tmain = NoFlush

\* The channel thread when a specification does not exercise it.
TIdle == TInit

\* start(): run() sets threaded_mode, opens the channel and enters the loop.
TRun ==
    /\ tpc = "new"
    /\ tchan' = [tchan EXCEPT !.threaded_mode = TRUE]
    /\ topen' = TRUE
    /\ tpc' = "loop"
    /\ UNCHANGED <<tunfinished, tstop, tdata, tlog, tsent, tlast, tmain, tothers>>

\* run: while not self.__stopEvent.is_set()
TLoop ==
    /\ tpc = "loop"
    /\ tpc' = IF tstop THEN "exited" ELSE "send"
    /\ UNCHANGED <<tchan, tunfinished, tstop, topen, tdata, tlog, tsent, tlast,
                   tmain, tothers>>

\* process_data_to_send: the test of the queue and, if it holds an item,
\* queue_output.get().
TGet ==
    /\ tpc = "send"
    /\ IF tchan.queue_output = <<>>
       THEN /\ tpc' = "read"
            /\ UNCHANGED <<tchan, tdata>>
       ELSE LET g == queue_get(tchan.queue_output)
            IN  /\ tdata' = g.data
                /\ tchan' = [tchan EXCEPT !.queue_output = g.rest]
                /\ tpc' = "write"
    /\ UNCHANGED <<tunfinished, tstop, topen, tlog, tsent, tlast, tmain, tothers>>

\* process_data_to_send: self.writePacket(data); PermissionError is caught,
\* any other exception leaves run().
TWritePacket ==
    /\ tpc = "write"
    /\ \E outcome \in writePacket(topen) :
          /\ tpc' = IF outcome = "error" THEN "raised" ELSE "done"
          /\ tlog' = [tlog EXCEPT
                         !.written = Append(@, tdata),
                         !.escaped = IF outcome = "error" THEN "writePacket" ELSE @,
                         !.denied = @ \/ outcome = "PermissionError"]
    /\ tsent' = [tsent EXCEPT !.sends = @ + 1]
    /\ UNCHANGED <<tchan, tunfinished, tstop, topen, tdata, tlast, tmain, tothers>>

\* process_data_to_send: self.queue_output.task_done()
TTaskDone ==
    /\ tpc = "done"
    /\ tunfinished' = tunfinished - 1
    /\ tpc' = "send"
    /\ UNCHANGED <<tchan, tstop, topen, tdata, tlog, tsent, tlast, tmain, tothers>>

\* check_incoming_data: data = self.read(); a timeout gives None, data goes
\* to the abstraction layers, and run() goes round its loop.
TRead ==
    /\ tpc = "read"
    /\ \E outcome \in read(topen) :
          tpc' = IF outcome = "error" THEN "except" ELSE "loop"
    /\ UNCHANGED <<tchan, tunfinished, tstop, topen, tdata, tlog, tsent, tlast,
                   tmain, tothers>>

\* check_incoming_data: except Exception: return if the channel is no
\* longer active, raise otherwise.
TExcept ==
    /\ tpc = "except"
    /\ IF ~isActive(tstop)
       THEN tpc' = "loop" /\ UNCHANGED tlog
       ELSE tpc' = "raised" /\ tlog' = [tlog EXCEPT !.escaped = "read"]
    /\ UNCHANGED <<tchan, tunfinished, tstop, topen, tdata, tsent, tlast, tmain,
                   tothers>>

\* channel.write(data): the items enqueued are numbered in the order of
\* their put().
TWrite ==
    /\ tmain.pc = "idle"
    /\ tlog.writes < MaxQueued
    /\ LET r == write(tchan, tlog.enq + 1, 1)
       IN  /\ tchan' = r.ch
           /\ tlast' = [outcome |-> r.outcome, reached |-> limitReached(tchan)]
           /\ tunfinished' = IF r.outcome = "queued" THEN tunfinished + 1
                             ELSE tunfinished
           /\ tlog' = [tlog EXCEPT
                          !.writes = @ + 1,
                          !.enq = IF r.outcome = "queued" THEN @ + 1 ELSE @]
           /\ tsent' = [tsent EXCEPT !.sends = @ + r.packets]
    /\ UNCHANGED <<tstop, topen, tpc, tdata, tmain, tothers>>

\* channel.setSendLimit(maxValue)
TSetSendLimit(maxValue) ==
    /\ tmain.pc = "idle"
    /\ tchan' = setSendLimit(tchan, maxValue)
    /\ tsent' = [tsent EXCEPT
                    !.limit = IF tsent.sends = 0 /\ tlog.enq = Len(tlog.written)
                                 /\ maxValue > 0
                              THEN maxValue ELSE 0]
    /\ UNCHANGED <<tunfinished, tstop, topen, tpc, tdata, tlog, tlast, tmain,
                   tothers>>

\* channel.clearSendLimit()
TClearSendLimit ==
    /\ tmain.pc = "idle"
    /\ tchan' = clearSendLimit(tchan)
    /\ tsent' = [limit |-> 0, sends |-> 0]
    /\ UNCHANGED <<tunfinished, tstop, topen, tpc, tdata, tlog, tlast, tmain,
                   tothers>>

\* stop(): self.close()
TStopClose ==
    /\ tmain.pc = "idle"
    /\ ~tstop
    /\ topen' = FALSE
    /\ tmain' = [tmain EXCEPT !.pc = "stop"]
    /\ UNCHANGED <<tchan, tunfinished, tstop, tpc, tdata, tlog, tsent, tlast,
                   tothers>>

\* stop(): self.__stopEvent.set()
TStopSet ==
    /\ tmain.pc = "stop"
    /\ tstop' = TRUE
    /\ tmain' = [tmain EXCEPT !.pc = "idle"]
    /\ UNCHANGED <<tchan, tunfinished, topen, tpc, tdata, tlog, tsent, tlast,
                   tothers>>

\* flush() is called: the caller waits in queue_output.join().
TFlush ==
    /\ tmain.pc = "idle"
    /\ tmain' = [pc |-> "flush", returned |-> FALSE, mark |-> tlog.enq,
                 pending |-> tunfinished, seen |-> 0]
    /\ UNCHANGED <<tchan, tunfinished, tstop, topen, tpc, tdata, tlog, tsent,
                   tlast, tothers>>

\* flush() returns.
TJoin ==
    /\ tmain.pc = "flush"
    /\ flush(tunfinished)
    /\ tmain' = [tmain EXCEPT !.pc = "idle", !.returned = TRUE,
                              !.seen = Len(tlog.written)]
    /\ UNCHANGED <<tchan, tunfinished, tstop, topen, tpc, tdata, tlog, tsent,
                   tlast, tothers>>

\* The steps of the channel thread while nothing stops it.
TThread == TRun \/ TLoop \/ TGet \/ TWritePacket \/ TTaskDone \/ TRead

ThreadNext ==
    \/ TRun
    \/ TLoop
    \/ TGet
    \/ TWritePacket
    \/ TTaskDone
    \/ TRead
    \/ TExcept
    \/ TWrite
    \/ \E maxValue \in HLimits : TSetSendLimit(maxValue)
    \/ TClearSendLimit
    \/ TStopClose
    \/ TStopSet
    \/ TFlush
    \/ TJoin

\* The channel while stop() is not called.
DeliveryNext ==
    \/ TRun
    \/ TLoop
    \/ TGet
    \/ TWritePacket
    \/ TTaskDone
    \/ TRead
    \/ TWrite
    \/ TFlush
    \/ TJoin

(***************************************************************************)
(* Timestamp: the unities and generate().  Integers are written as their   *)
(* decimal digits, most significant first, so that the factors keep their  *)
(* value whatever their size.                                              *)
(***************************************************************************)
\* class Unity(Enum): the value of every member.
Unity ==
    [SECOND |-> <<1>>,
     DECISECOND |-> <<1, 0>>,
     CENTISECOND |-> <<1, 0, 0>>,
     MILLISECOND |-> <<1, 0, 0, 0>>,
     MICROSECOND |-> <<1, 0, 0, 0, 0, 0, 0>>,
     NANOSECOND |-> <<1, 0, 0, 0, 0, 0, 0, 0, 0, 0, 0>>]

\* The digits of the natural number n.
RECURSIVE DigitsOf(_)
DigitsOf(n) == IF n < 10 THEN <<n>> ELSE DigitsOf(n \div 10) \o <<n % 10>>

\* digits * n + carry, digit by digit from the right.
RECURSIVE MulCarry(_, _, _)
MulCarry(digits, n, carry) ==
    IF digits = <<>> THEN (IF carry = 0 THEN <<>> ELSE DigitsOf(carry))
    ELSE LET p == digits[Len(digits)] * n + carry
         IN  MulCarry(SubSeq(digits, 1, Len(digits) - 1), n, p \div 10) \o <<p % 10>>

\* digits * n
MulDigits(digits, n) == IF n = 0 THEN <<0>> ELSE MulCarry(digits, n, 0)

\* int(x / 10) of the integer with these digits.
DivTen(digits) ==
    IF Len(digits) = 1 THEN <<0>> ELSE SubSeq(digits, 1, Len(digits) - 1)

\* generate: the value given at construction if there is one, else
\* int(result_sec * self.unity.value) with result_sec = now / 10 seconds.
Timestamp_generate(ts, now) ==
    IF ts.value # NoneV THEN ts.value
    ELSE DivTen(MulDigits(Unity[ts.unity], now))

\* A generate() not called yet.
NoTimestamp == [at |-> -1, out |-> NoneV]

\* Timestamp(value, unity=...) at some time after the epoch.
KStart(unity, value, now) ==
    /\ kstamp = [unity |-> unity, value |-> value]
    /\ know = now
    /\ kout = NoTimestamp

KInit ==
    \E unity \in DOMAIN Unity, value \in {NoneV, <<4, 2>>} :
        KStart(unity, value, 0)

\* The Timestamp when a specification does not exercise it.
KIdle == KStart("SECOND", NoneV, 0)

\* A tenth of a second passes.
KTick ==
    /\ know < MaxTicks
    /\ know' = know + 1
    /\ UNCHANGED <<kstamp, kout, kothers>>

\* timestamp.generate()
KGenerate ==
    /\ kout' = [at |-> know, out |-> Timestamp_generate(kstamp, know)]
    /\ UNCHANGED <<kstamp, know, kothers>>

TimestampNext ==
    \/ KTick
    \/ KGenerate

(***************************************************************************)
(* Symbol: the messages property.  Lists are objects on a heap; the        *)
(* Symbol's __messages is object 1, made once by __init__.                 *)
(***************************************************************************)
\* The identity of self.__messages.
Messages == 1

\* isinstance(msg, AbstractMessage)
IsAbstractMessage(msg) == msg \in {"m1", "m2"}

\* clearMessages: the Symbol's list is popped until it is empty.
clearMessages(heap) == [heap EXCEPT ![Messages] = <<>>]

\* messages (getter): the object returned.
messages_getter(heap) == Messages

\* A setter that reads the elements of the list it is given before it clears
\* its own.
messages_setter_snapshot(heap, ref) ==
    LET messages == IF ref = 0 THEN <<>> ELSE heap[ref]
    IN  IF \E k \in 1..Len(messages) : ~IsAbstractMessage(messages[k])
        THEN [heap |-> heap, err |-> TRUE]
        ELSE [heap |-> [heap EXCEPT ![Messages] = messages], err |-> FALSE]

\* messages (setter) with the list object ref, 0 for None: the elements are
\* type-checked, the Symbol's list is cleared, and then the elements the
\* given object holds at that moment are appended one by one.
messages_setter(heap, ref) ==
    LET messages == IF ref = 0 THEN <<>> ELSE heap[ref]
    IN  IF \E k \in 1..Len(messages) : ~IsAbstractMessage(messages[k])
        THEN [heap |-> heap, err |-> TRUE]
        ELSE LET cleared == clearMessages(heap)
                 left == IF ref = 0 THEN <<>> ELSE cleared[ref]
             IN  [heap |-> [cleared EXCEPT ![Messages] = @ \o left],
                  err |-> FALSE]

\* The lists a caller builds: of messages, and one that holds something else.
LLists == {<<>>, <<"m1">>, <<"m1", "m2">>, <<"m2", "m1">>, <<"m1", "other">>}

NoAssignment == [name |-> "none", ref |-> 0, given |-> <<>>, err |-> FALSE]

\* Symbol(messages=None): __init__ makes the list and assigns through the
\* setter.
LInit ==
    /\ lheap = messages_setter(<< <<>> >>, 0).heap
    /\ lheld = {}
    /\ lop = NoAssignment

\* The messages when a specification does not exercise them.
LIdle == LInit

\* L = [...]: the caller builds a list.
LNew(L) ==
    /\ Len(lheap) < MaxLists
    /\ lheap' = Append(lheap, L)
    /\ lheld' = lheld \cup {Len(lheap) + 1}
    /\ UNCHANGED <<lop, lothers>>

\* L = symbol.messages: the caller keeps what the getter returned.
LGet ==
    /\ lheld' = lheld \cup {messages_getter(lheap)}
    /\ lop' = [NoAssignment EXCEPT !.name = "get"]
    /\ UNCHANGED <<lheap, lothers>>

\* symbol.messages = L, L a list the caller holds, or None.
LSet(ref) ==
    /\ ref \in lheld \cup {0}
    /\ LET r == messages_setter(lheap, ref)
       IN  /\ lheap' = r.heap
           /\ lop' = [name |-> "set", ref |-> ref,
                      given |-> IF ref = 0 THEN <<>> ELSE lheap[ref],
                      err |-> r.err]
    /\ UNCHANGED <<lheld, lothers>>

\* symbol.clearMessages()
LClearMessages ==
    /\ lheap' = clearMessages(lheap)
    /\ lop' = [NoAssignment EXCEPT !.name = "clear"]
    /\ UNCHANGED <<lheld, lothers>>

MessagesNext ==
    \/ \E L \in LLists : LNew(L)
    \/ LGet
    \/ \E ref \in 0..MaxLists : LSet(ref)
    \/ LClearMessages

ParseNext ==
    \/ DDomainCMP("f1")
    \/ DValueCMP("f1")
    \/ DLearn("f1")
    \/ \E k \in 1..MaxLen + 1 : DAdopt(k)

SpecializeNext ==
    \/ DUse("f1")
    \/ DRegenerate("f1")
    \/ DRegenerateAndMemorize("f1")
    \/ DNewPath

DefinedNext ==
    \/ DIsDefined("f1")
    \/ DIsDefined("f2")

InitXor == XInit /\ MIdle /\ DIdle /\ SIdle /\ EIdle /\ CIdle /\ VIdle /\ HIdle /\ LIdle /\ TIdle /\ KIdle

InitMut == XIdle /\ MInit /\ DIdle /\ SIdle /\ EIdle /\ CIdle /\ VIdle /\ HIdle /\ LIdle /\ TIdle /\ KIdle

InitParse == XIdle /\ MIdle /\ DInitParse /\ SIdle /\ EIdle /\ CIdle /\ VIdle /\ HIdle /\ LIdle /\ TIdle /\ KIdle

InitSpecialize == XIdle /\ MIdle /\ DInitSpecialize /\ SIdle /\ EIdle /\ CIdle /\ VIdle /\ HIdle /\ LIdle /\ TIdle /\ KIdle

InitDefined == XIdle /\ MIdle /\ DInitDefined /\ SIdle /\ EIdle /\ CIdle /\ VIdle /\ HIdle /\ LIdle /\ TIdle /\ KIdle

InitSymbol == XIdle /\ MIdle /\ DIdle /\ SInit /\ EIdle /\ CIdle /\ VIdle /\ HIdle /\ LIdle /\ TIdle /\ KIdle

InitEquality == XIdle /\ MIdle /\ DIdle /\ SIdle /\ EInit /\ CIdle /\ VIdle /\ HIdle /\ LIdle /\ TIdle /\ KIdle

InitConstruct == XIdle /\ MIdle /\ DIdle /\ SIdle /\ EIdle /\ CInit /\ VIdle /\ HIdle /\ LIdle /\ TIdle /\ KIdle

InitValue == XIdle /\ MIdle /\ DIdle /\ SIdle /\ EIdle /\ CIdle /\ VInit /\ HIdle /\ LIdle /\ TIdle /\ KIdle

InitChannel == XIdle /\ MIdle /\ DIdle /\ SIdle /\ EIdle /\ CIdle /\ VIdle /\ HInit /\ LIdle /\ TIdle /\ KIdle

InitChecksum == XIdle /\ MIdle /\ DIdle /\ SInitChecksum /\ EIdle /\ CIdle /\ VIdle /\ HIdle /\ LIdle /\ TIdle /\ KIdle

InitMessages == XIdle /\ MIdle /\ DIdle /\ SIdle /\ EIdle /\ CIdle /\ VIdle /\ HIdle /\ LInit /\ TIdle /\ KIdle

InitTimestamp == XIdle /\ MIdle /\ DIdle /\ SIdle /\ EIdle /\ CIdle /\ VIdle /\ HIdle /\ LIdle /\ TIdle /\ KInit

InitThread == XIdle /\ MIdle /\ DIdle /\ SIdle /\ EIdle /\ CIdle /\ VIdle /\ HIdle /\ LIdle /\ TInit /\ KIdle

XorNext ==
    \/ XNext(1)
    \/ XGetState(1)
    \/ XSetState(1)

\* One generator with checkpoint and replay.
SpecXor == InitXor /\ [][XorNext]_vars

Xor2Next == \E i \in GenIds : XNext(i)

\* Two generators built from the same arguments, drawn from in any order.
SpecXor2 == InitXor /\ [][Xor2Next]_vars

XorCoverageNext == XDrawCoverage

InitXorCoverage == XInitCoverage /\ MIdle /\ DIdle /\ SIdle /\ EIdle /\ CIdle /\ VIdle /\ HIdle /\ LIdle /\ TIdle /\ KIdle

\* The first 256 draws of a signed generator.
SpecXorCoverage == InitXorCoverage /\ [][XorCoverageNext]_vars

XorNewNext ==
    \/ XConstruct
    \/ XDraw

InitXorNew == XInitNew /\ MIdle /\ DIdle /\ SIdle /\ EIdle /\ CIdle /\ VIdle /\ HIdle /\ LIdle /\ TIdle /\ KIdle

\* One generator from the call of its constructor on.
SpecXorNew == InitXorNew /\ [][XorNewNext]_vars

MutNext ==
    \/ MGenerate
    \/ MReset
    \/ MSetSeed
    \/ MGetValueAt

\* One mutator: generate, reset, the seed setter and getValueAt.
SpecMut == InitMut /\ [][MutNext]_vars

\* One Data leaf and the parsing path its parse operations are handed.
SpecParse == InitParse /\ [][ParseNext]_vars

\* One Data leaf and the specializing paths of one session, all around the
\* same Memory.
SpecSpecialize == InitSpecialize /\ [][SpecializeNext]_vars

\* One Data leaf asked whether it is defined, on a path with or without a
\* Memory.
SpecDefined == InitDefined /\ [][DefinedNext]_vars

\* One Symbol: one specialize() call, field by field.
SpecSymbol == InitSymbol /\ [][SymbolNext]_vars

\* Two objects, one of them a Symbol, compared and hashed.
SpecEquality == InitEquality /\ [][EqualityNext]_vars

\* A Data, its currentValue and the bit vectors of its caller.
SpecValue == InitValue /\ [][ValueNext]_vars

\* specialize() of a Symbol with CRC16 fields.
SpecChecksum == InitChecksum /\ [][ChecksumNext]_vars

\* A channel that is written to from one thread.
SpecChannel == InitChannel /\ [][ChannelNext]_vars

\* One Symbol and the lists assigned to its messages.
SpecMessages == InitMessages /\ [][MessagesNext]_vars

\* One channel run as a thread, and the caller's thread.
SpecThread == InitThread /\ [][ThreadNext]_vars

\* The same while stop() is not called: the channel thread, once started, is
\* scheduled again and again (read() returns within the timeout run() sets),
\* and so is a caller whose join() can return.
SpecDelivery ==
    InitThread /\ [][DeliveryNext]_vars /\ WF_vars(TThread) /\ WF_vars(TJoin)

\* One Timestamp, the clock and generate().
SpecTimestamp == InitTimestamp /\ [][TimestampNext]_vars

\* One call of the mutator's constructor.
SpecConstruct == InitConstruct /\ [][ConstructNext]_vars

(***************************************************************************)
(* Claims about the XorShift generator.                                    *)
(***************************************************************************)
\* The value a caller sees: an integer, None or an error, without the model's
\* bookkeeping of which branch of __next__ produced it.
Seen(out) == <<out.tag, out.v>>

\* C1: saving st = get_state(), drawing k values, calling set_state(st) and
\* drawing k values again yields the same k values: every value drawn since
\* set_state equals the value drawn at the same position since get_state.
C1_StateRoundTrip ==
    \A k \in 1..Len(xrep) : k <= Len(xrec) => Seen(xrep[k]) = Seen(xrec[k])

C3_IntervalContainment ==
    \A k \in 1..Len(outs[1]) :
        outs[1][k].tag = "value" =>
            xcfg.minValue <= outs[1][k].v /\ outs[1][k].v <= xcfg.maxValue

\* A signed generator has returned a negative value after a restore.
C3_Witness ==
    /\ xcfg.signed
    /\ xphase = "replaying"
    /\ Len(xrep) > 0
    /\ xrep[Len(xrep)].tag = "value"
    /\ xrep[Len(xrep)].v < 0

C5_Exhaustion ==
    \A k \in 1..Len(mhist) :
        /\ (k <= mut.counterMax) => mhist[k].tag = "value"
        /\ (k > mut.counterMax) => mhist[k].tag = "error"

\* After a reset, counterMax calls succeeded and the two calls after them
\* failed.
C5_Witness ==
    /\ mreset
    /\ mut.counterMax >= 2
    /\ Len(mhist) = mut.counterMax + 2
    /\ mhist[mut.counterMax].tag = "value"
    /\ mhist[mut.counterMax + 1].tag = "error"
    /\ mhist[mut.counterMax + 2].tag = "error"

(***************************************************************************)
(* Claims about the Data leaf.                                             *)
(***************************************************************************)
\* C6: use(path) emits the Memory value when the path's Memory holds one for
\* the variable, even if a different fixed value exists; otherwise it emits
\* the fixed current value when there is one; otherwise it returns no result
\* and leaves the path as it was.
C6_Use ==
    dop.name = "use" =>
        LET v == dop.var
            before == dop.before
        IN  IF before.memory[v] # NoneV
            THEN /\ dyield = <<dpath>>
                 /\ dpath = [before EXCEPT !.results[v] = before.memory[v]]
            ELSE IF data[v].currentValue # NoneV
            THEN /\ dyield = <<dpath>>
                 /\ dpath = [before EXCEPT !.results[v] = data[v].currentValue]
            ELSE /\ dyield = <<>>
                 /\ dpath = before

\* use has emitted the Memory value of a variable whose fixed value differs.
C6_Witness ==
    /\ dop.name = "use"
    /\ dop.before.memory["f1"] # NoneV
    /\ data["f1"].currentValue # NoneV
    /\ data["f1"].currentValue # dop.before.memory["f1"]
    /\ dpath.results["f1"] = dop.before.memory["f1"]

\* C7: once regenerateAndMemorize(var) has run on a path with Memory M, the
\* Memory keeps the generated bit vector and every later use(var) on a path
\* carrying M emits exactly that bit vector, on that path and on every
\* later path of the session.
C7_MemoryPersistence ==
    \A v \in DVars :
        dgen[v].value # NoneV =>
            /\ dpath.memory[v] = dgen[v].value
            /\ (dop.name = "use" /\ dop.var = v) =>
                   /\ dyield = <<dpath>>
                   /\ dpath.results[v] = dgen[v].value

\* use on a later path of the session has emitted the value that
\* regenerateAndMemorize generated on an earlier one, the variable's fixed
\* value being another.
C7_Witness ==
    /\ dop.name = "use"
    /\ dgen["f1"].value # NoneV
    /\ dpathId > dgen["f1"].pathId
    /\ data["f1"].currentValue # NoneV
    /\ data["f1"].currentValue # dgen["f1"].value
    /\ dpath.results["f1"] = dgen["f1"].value

\* The sizes the claims speak of: those in [minSize, min(maxSize, len(c))]
\* that are 0 or whose prefix the type can parse; an unbounded maxSize
\* counts as len(c).
AcceptedSizes(dataType, c) ==
    LET hi == IF dataType.maxSize = NoSize THEN Len(c)
              ELSE Min(dataType.maxSize, Len(c))
    IN  {size \in dataType.minSize..hi :
            size = 0 \/ canParse(dataType, Prefix(c, size))}

\* C8: for content c with len(c) >= minSize, domainCMP yields one new path
\* per accepted size, each a copy of the given path with exactly c[:size]
\* recorded for the variable, in strictly decreasing order of size.
C8_DomainParseBranches ==
    dop.name = "domainCMP" =>
        LET v == dop.var
            before == dop.before
            c == before.content
            accepted == AcceptedSizes(data[v].dataType, c)
        IN  Len(c) >= data[v].dataType.minSize =>
              /\ Len(dyield) = Cardinality(accepted)
              /\ \A k \in 1..Len(dyield) :
                    /\ Len(dyield[k].results[v]) \in accepted
                    /\ dyield[k] = [before EXCEPT !.results[v] =
                                       Prefix(c, Len(dyield[k].results[v]))]
              /\ \A size \in accepted :
                    \E k \in 1..Len(dyield) : dyield[k].results[v] = Prefix(c, size)
              /\ \A k \in 1..Len(dyield) - 1 :
                    Len(dyield[k].results[v]) > Len(dyield[k + 1].results[v])

\* domainCMP on a type without maxSize has yielded three branches or more,
\* the last one the empty match.
C8_Witness ==
    /\ dop.name = "domainCMP"
    /\ data["f1"].dataType.maxSize = NoSize
    /\ Len(dyield) >= 3
    /\ dyield[1].results["f1"] = dop.before.content
    /\ dyield[Len(dyield)].results["f1"] = <<>>

C10_GivenPathUnchanged ==
    dop.name \in {"domainCMP", "learn", "valueCMP"} =>
        /\ dpath.results = dop.before.results
        /\ dpath.memory = dop.before.memory


\* C11 as stated: isDefined fails for every Data variable on every path that
\* has no Memory attached; with a Memory attached it returns true exactly
\* when the variable has a fixed current value or the Memory holds a value
\* for it.
C11_IsDefined ==
    dop.name = "isDefined" =>
        LET v == dop.var
            memory == dop.before.memory
        IN  IF memory = NoMemory
            THEN dop.err
            ELSE /\ ~dop.err
                 /\ dop.ret = (data[v].currentValue # NoneV \/ memory[v] # NoneV)

\* C11 as amended: isDefined returns true for a variable with a fixed current
\* value, with or without a Memory on the path; for a variable without fixed
\* value it fails when the path has no Memory attached and otherwise returns
\* whether the Memory holds a value for the variable.  It never changes the
\* path.
C11_IsDefinedFixedValueFirst ==
    dop.name = "isDefined" =>
        LET v == dop.var
            memory == dop.before.memory
        IN  /\ dpath = dop.before
            /\ IF data[v].currentValue # NoneV
               THEN ~dop.err /\ dop.ret
               ELSE IF memory = NoMemory
               THEN dop.err
               ELSE ~dop.err /\ dop.ret = (memory[v] # NoneV)

\* isDefined has returned true for a variable with a fixed value on a path
\* without Memory.
C11_Witness ==
    /\ dop.name = "isDefined"
    /\ dop.before.memory = NoMemory
    /\ data[dop.var].currentValue # NoneV
    /\ ~dop.err
    /\ dop.ret

C13_LearnMemorizes ==
    dop.name = "learn" =>
        \A k \in 1..Len(dyield) :
            /\ dyield[k].results[dop.var] # NoneV
            /\ dyield[k].results[dop.var] =
                   Prefix(dop.before.content, Len(dyield[k].results[dop.var]))
            /\ dyield[k].memory[dop.var] = dyield[k].results[dop.var]

\* learn, on a path whose Memory already held a value for the variable, has
\* yielded two branches that memorized two other values.
C13_Witness ==
    /\ dop.name = "learn"
    /\ dop.before.memory["f1"] # NoneV
    /\ Len(dyield) >= 2
    /\ dyield[1].memory["f1"] # dop.before.memory["f1"]
    /\ dyield[2].memory["f1"] # dop.before.memory["f1"]
    /\ dyield[1].memory["f1"] # dyield[2].memory["f1"]

\* C14: regenerate(path) emits a value generated by the type as the
\* variable's result and leaves the path's Memory unchanged, with no entry
\* added or altered for any variable; so a use() of a variable without fixed
\* value, whose Memory entry nothing has written, yields no result however
\* many regenerate calls came before.
C14_RegenerateDoesNotMemorize ==
    /\ dop.name = "regenerate" =>
           LET v == dop.var
           IN  /\ dpath.memory = dop.before.memory
               /\ dyield = <<dpath>>
               /\ dpath.results[v] \in Generated(data[v].dataType)
               /\ \A w \in DVars \ {v} : dpath.results[w] = dop.before.results[w]
    /\ (/\ dop.name = "use"
        /\ data[dop.var].currentValue = NoneV
        /\ dgen[dop.var].value = NoneV) =>
           /\ dyield = <<>>
           /\ dpath = dop.before

\* After regenerate recorded a result for a variable without fixed value, a
\* use of that variable on the same path has yielded nothing.
C14_Witness ==
    /\ dop.name = "use"
    /\ dop.var = "f1"
    /\ data["f1"].currentValue = NoneV
    /\ dop.before.results["f1"] # NoneV
    /\ dop.before.memory["f1"] = NoneV
    /\ dyield = <<>>

(***************************************************************************)
(* Claims about Symbol.specialize.                                         *)
(***************************************************************************)
\* Bit number p of a sequence of bytes, each most significant bit first.
BitOfBytes(bytes, p) ==
    (bytes[((p - 1) \div 8) + 1] \div Pow2(7 - ((p - 1) % 8))) % 2

\* The number of bits of the results of the fields before field i.
RECURSIVE Offset(_, _)
Offset(results, i) ==
    IF i = 1 THEN 0 ELSE Offset(results, i - 1) + Len(results[i - 1])

\* C17: specialize returns the concatenation of the per-field results in
\* Field order: the bits of field i stand in the output right after those of
\* fields 1..i-1, and the output has no byte beyond them; one Specializing
\* Path is used per invocation, around the Memory supplied or a new, empty
\* Memory when none is supplied.
C17_Concatenation ==
    /\ spc = "done" =>
          LET results == spath.results
              n == Len(symbol.fields)
              total == Offset(results, n) + Len(results[n])
          IN  /\ Complete(spath)
              /\ Len(sout) = (total + 7) \div 8
              /\ \A i \in 1..n : \A b \in 1..Len(results[i]) :
                    BitOfBytes(sout, Offset(results, i) + b) = results[i][b]
    /\ spc \in {"running", "done", "error"} =>
          /\ DOMAIN spath.results = 1..Len(symbol.fields)
          /\ spath.memory = IF sargs.memory = NoMemory
                            THEN [i \in 1..Len(symbol.fields) |-> NoneV]
                            ELSE sargs.memory

\* specialize, called without a Memory, has returned three bytes and more
\* for three fields of which the middle one is the longest.
C17_Witness ==
    /\ spc = "done"
    /\ sargs.memory = NoMemory
    /\ Len(symbol.fields) = 3
    /\ Len(spath.results[2]) > Len(spath.results[1])
    /\ spath.results[1] # spath.results[3]
    /\ Len(sout) >= 3

\* The relationship fields specialize computes: the Size fields without a
\* preset.
Computed(i) == symbol.fields[i].kind = "size" /\ sargs.presets[i] = NoneV

\* The position at which field i was resolved.
ResolvedAt(i) == CHOOSE p \in 1..Len(sorder) : sorder[p] = i

\* C15: a relationship field declared before its target in Field order is
\* still emitted with the value computed from the target's final emitted
\* bits (for Size, their number of whole bytes, on one byte), and a
\* relationship field is resolved only after all its targets have a
\* concrete value; a Symbol whose relationships all point at independent
\* fields never fails to specialize on account of its Field order.
C15_RelationshipOrdering ==
    /\ spc = "done" =>
          \A i \in 1..Len(symbol.fields) :
              Computed(i) =>
                  /\ Len(spath.results[i]) = 8
                  /\ \A j \in symbol.fields[i].targets :
                        /\ BitsToInt(spath.results[i]) = Len(spath.results[j]) \div 8
                        /\ ResolvedAt(j) < ResolvedAt(i)
    /\ \A p \in 1..Len(sorder) :
          Computed(sorder[p]) =>
              \A j \in symbol.fields[sorder[p]].targets :
                  \E q \in 1..(p - 1) : sorder[q] = j
    /\ (\A i \in 1..Len(symbol.fields) :
           Computed(i) => \A j \in symbol.fields[i].targets : ~Computed(j))
          => spc # "error"

\* As in the Symbol's documentation: a Size field declared first, its target
\* of two generated bytes declared after it; specialize has returned three
\* bytes of which the first is 2.
C15_Witness ==
    /\ spc = "done"
    /\ Len(symbol.fields) = 2
    /\ symbol.fields[1].kind = "size"
    /\ symbol.fields[1].targets = {2}
    /\ symbol.fields[2].currentValue = NoneV
    /\ sargs.presets = <<NoneV, NoneV>>
    /\ sorder = <<2, 1>>
    /\ sout[1] = 2
    /\ Len(sout) = 3

\* C16: for every field that has a preset entry, specialize emits exactly
\* the preset bit vector, whatever the field's type bounds, fixed value,
\* Memory entry or relationship would otherwise produce; a Data field
\* without a preset emits what it emits without presets: its Memory entry,
\* else its fixed value, else a value its type generates.
C16_PresetOverride ==
    spc = "done" =>
        \A i \in 1..Len(symbol.fields) :
            IF sargs.presets[i] # NoneV
            THEN spath.results[i] = sargs.presets[i]
            ELSE symbol.fields[i].kind = "data" =>
                    IF spath.memory[i] # NoneV
                    THEN spath.results[i] = spath.memory[i]
                    ELSE IF symbol.fields[i].currentValue # NoneV
                    THEN spath.results[i] = symbol.fields[i].currentValue
                    ELSE spath.results[i] \in SGenerated(symbol.fields[i].dataType)

\* specialize has emitted the preset for a Size field whose target holds two
\* bytes, and for a Data field that has a fixed value, a Memory entry and a
\* type the preset is too short for.
C16_Witness ==
    /\ spc = "done"
    /\ \E i \in 1..Len(symbol.fields) :
          /\ sargs.presets[i] # NoneV
          /\ spath.results[i] = sargs.presets[i]
          /\ \/ /\ symbol.fields[i].kind = "size"
                /\ \E j \in symbol.fields[i].targets : Len(spath.results[j]) = 16
             \/ /\ symbol.fields[i].kind = "data"
                /\ symbol.fields[i].currentValue # NoneV
                /\ spath.memory[i] # NoneV
                /\ Len(sargs.presets[i]) < symbol.fields[i].dataType.minSize

\* C18: for a Symbol built only from Data leaves with fixed values, parsing
\* the output of specialize() against that Symbol matches every field and
\* recovers for each the bits that were emitted for it, hence the same
\* boundaries; nothing is left over but the bits, fewer than eight, that
\* pad a total which is not a whole number of bytes.
C18_RoundTrip ==
    (/\ sprs.status # "idle"
     /\ FixedLeaves(symbol)
     /\ sargs.memory = NoMemory
     /\ \A i \in 1..Len(symbol.fields) : sargs.presets[i] = NoneV) =>
        /\ sprs.status = "parsed"
        /\ sprs.results = spath.results
        /\ \A i \in 1..Len(symbol.fields) :
              spath.results[i] = symbol.fields[i].currentValue
        /\ Len(sprs.remaining) < 8
        /\ Len(generatedContent(spath)) % 8 = 0 => sprs.remaining = <<>>

\* The parse of the bytes specialize() returned for three fixed leaves, the
\* first two of them half a byte each, has recovered the three values.
C18_Witness ==
    /\ sprs.status = "parsed"
    /\ FixedLeaves(symbol)
    /\ sargs.memory = NoMemory
    /\ sargs.presets = <<NoneV, NoneV, NoneV>>
    /\ Len(symbol.fields) = 3
    /\ Len(sprs.results[1]) = 4
    /\ Len(sprs.results[2]) = 4
    /\ Len(sprs.results[3]) = 8
    /\ sprs.remaining = <<>>

\* C19: a == b holds exactly when b is a Symbol and the names are equal,
\* whatever the fields and the messages; a != b is exactly the negation of
\* a == b; a Symbol equals neither a non-Symbol nor None; equal Symbols have
\* equal hashes.
C19_NameEquality ==
    LET sameName == IsSymbol(eb) /\ ea.name = eb.name
    IN  /\ eres.eq # <<>> => eres.eq[1] = sameName
        /\ eres.ne # <<>> => eres.ne[1] = ~sameName
        /\ (eres.eq # <<>> /\ eres.ne # <<>>) => eres.ne[1] = ~eres.eq[1]
        /\ (eres.eq # <<>> /\ ~IsSymbol(eb)) => eres.eq[1] = FALSE
        /\ (eres.eq # <<>> /\ eres.hash # <<>> /\ eres.eq[1])
              => eres.hash[1] = eres.hash[2]

\* Two Symbols of the same name, with other fields and other messages, have
\* compared equal, not unequal, and have the same hash.
C19_Witness ==
    /\ IsSymbol(eb)
    /\ ea.fields # eb.fields
    /\ ea.messages # eb.messages
    /\ eres.eq = <<TRUE>>
    /\ eres.ne = <<FALSE>>
    /\ eres.hash # <<>>
    /\ eres.hash[1] = eres.hash[2]

(***************************************************************************)
(* Claims about the construction of the determinist integer mutator.       *)
(***************************************************************************)
\* C20: for a Data of an Integer type, with no interval or DEFAULT_INTERVAL
\* the effective [min, max] is the type's value bounds; with FULL_INTERVAL
\* it is the type's storage bounds; with a pair of integers (a, b) it is
\* (max(a, minStorage), min(b, maxStorage)); any other interval argument
\* fails construction.  An unsigned 8-bit field with no interval resolves to
\* min = 0, max = 255.
C20_IntervalResolution ==
    (cmut.tag # "none" /\ cdomain.class = "Data"
        /\ cdomain.dataType.family = "Integer") =>
        LET t == cdomain.dataType
            lo == IF t.signed THEN -Pow2(t.unitSize - 1) ELSE 0
            hi == IF t.signed THEN Pow2(t.unitSize - 1) - 1 ELSE Pow2(t.unitSize) - 1
            resolved == <<cmut.tag, cmut.minValue, cmut.maxValue>>
        IN  /\ cinterval.kind \in {"None", "DEFAULT_INTERVAL"} =>
                  resolved = IF t.interval = <<>> THEN <<"ok", lo, hi>>
                             ELSE <<"ok", t.interval[1], t.interval[2]>>
            /\ cinterval.kind = "FULL_INTERVAL" => resolved = <<"ok", lo, hi>>
            /\ IsIntPair(cinterval) =>
                  LET a == cinterval.elems[1].v
                      b == cinterval.elems[2].v
                  IN  resolved = <<"ok", IF a > lo THEN a ELSE lo,
                                        IF b < hi THEN b ELSE hi>>
            /\ (cinterval.kind = "other" \/ (cinterval.kind = "tuple" /\ ~IsIntPair(cinterval)))
                  => cmut.tag = "error"
            /\ (t.unitSize = 8 /\ ~t.signed /\ t.interval = <<>> /\ cinterval.kind = "None")
                  => resolved = <<"ok", 0, 255>>

\* As in the mutator's documentation: a signed 8-bit field declared with the
\* interval (-10, 5) and no interval argument resolves to [-10, 5], and an
\* explicit (-200, 300) on an 8-bit signed field is cut to [-128, 127].
C20_Witness ==
    /\ cmut.tag = "ok"
    /\ cdomain.class = "Data"
    /\ cdomain.dataType.family = "Integer"
    /\ cdomain.dataType.unitSize = 8
    /\ cdomain.dataType.signed
    /\ \/ /\ cinterval.kind = "None"
          /\ cdomain.dataType.interval = <<-10, 5>>
          /\ cmut.minValue = -10
          /\ cmut.maxValue = 5
       \/ /\ IsIntPair(cinterval)
          /\ cinterval.elems[1].v = -200
          /\ cinterval.elems[2].v = 300
          /\ cmut.minValue = -128
          /\ cmut.maxValue = 127

\* C21: for every explicit interval (a, b) with a <= b, both resolved
\* endpoints lie inside [minStorage, maxStorage] of the field's type and the
\* resolved interval is the intersection of [a, b] with the storage bounds,
\* so that the resolved min is at most the resolved max.
C21_ExplicitIntervalClamped ==
    (/\ cmut.tag = "ok"
     /\ IsIntPair(cinterval)
     /\ cinterval.elems[1].v <= cinterval.elems[2].v) =>
        LET lo == getMinStorageValue(cdomain.dataType)
            hi == getMaxStorageValue(cdomain.dataType)
        IN  /\ lo <= cmut.minValue /\ cmut.minValue <= hi
            /\ lo <= cmut.maxValue /\ cmut.maxValue <= hi
            /\ cmut.minValue <= cmut.maxValue
            /\ \A n \in (cinterval.elems[1].v - 1)..(cinterval.elems[2].v + 1) :
                  (cmut.minValue <= n /\ n <= cmut.maxValue)
                      <=> (/\ cinterval.elems[1].v <= n /\ n <= cinterval.elems[2].v
                           /\ lo <= n /\ n <= hi)

\* C22: construction fails whenever the target is absent (None), is not a
\* variable, exposes no data type, or is bound to a type that is not of the
\* integer family, whatever the interval argument; after the failure there is
\* no mutator and no list of values.  A target bound to an Integer fails
\* only on its interval argument.
C22_TypeMismatch ==
    cmut.tag # "none" =>
        /\ (\/ cdomain.class # "Data"
            \/ cdomain.dataType.family # "Integer")
              => (cmut.tag = "error" /\ ~cmut.ng)
        /\ cmut.tag = "error" => ~cmut.ng
        /\ (cmut.tag = "error" /\ cdomain.class = "Data"
              /\ cdomain.dataType.family = "Integer")
              => cinterval.kind \in {"other", "tuple"}

\* Construction on a Data bound to a Raw type, with an interval argument that
\* an Integer would accept, has failed.
C22_Witness ==
    /\ cmut.tag = "error"
    /\ ~cmut.ng
    /\ cdomain.class = "Data"
    /\ cdomain.dataType.family = "Raw"
    /\ cinterval.kind = "FULL_INTERVAL"

(***************************************************************************)
(* Claims about the construction of the XorShift generator.                *)
(***************************************************************************)
\* C23: constructing a XorShift generator with seed 0 fails on the seed, for
\* every interval and signedness (and whether the interval is given or not);
\* every nonzero seed with an interval of a supported width constructs a
\* generator, whose state is the seed.
C23_SeedZero ==
    xphase # "new" =>
        /\ xcfg.seed = 0 => (xphase = "seed=0" /\ gen[1] = XNoGenerator)
        /\ (xcfg.seed # 0 /\ xcfg.missing = {}) =>
              /\ xphase \notin XFailures
              /\ gen[1].state # 0
              /\ outs[1] = <<>> => gen[1] = [state |-> xcfg.seed, firstCall |-> TRUE,
                                             nbCall |-> 0]

\* A constructor call with seed 0 and a signed interval has failed.
C23_Witness ==
    /\ xphase = "seed=0"
    /\ xcfg.seed = 0
    /\ xcfg.signed
    /\ xcfg.missing = {}
    /\ xcfg.minValue = -128

\* An interval no generated value can satisfy: below 0 for an unsigned
\* generator, outside the two's complement range of the width for a signed one.
NoValueCanSatisfy(cfg) ==
    IF cfg.signed
    THEN \/ cfg.maxValue < -Pow2(Bitsize(cfg) - 1)
         \/ cfg.minValue > Pow2(Bitsize(cfg) - 1) - 1
    ELSE cfg.maxValue < 0

\* C24: a draw on an interval that no generated value can satisfy (such as
\* min = max = -20 with signed=False) terminates and returns None: it does
\* not raise.
C24_NoValue ==
    (xphase = "idle" /\ NoValueCanSatisfy(xcfg)) =>
        \A k \in 1..Len(outs[1]) : outs[1][k].tag = "none"

\* The same on the generators whose seed is a state of one byte.
C24_NoValueSeedInWidth ==
    NoValueCanSatisfy(xcfg) =>
        \A i \in GenIds : \A k \in 1..Len(outs[i]) : outs[i][k].tag = "none"

(***************************************************************************)
(* Claims about the sequence of the XorShift generator.                    *)
(***************************************************************************)
\* C25: with signed=True on [-128, 127], the first 256 draws of a fresh
\* generator are integers of the interval, pairwise distinct (each draw
\* differs from all the draws before it), so that the 256 draws are exactly
\* the integers of the interval; for every seed in 1..255, 14 included.
C25_SignedCoverage ==
    LET n == Len(outs[1])
    IN  /\ \A k \in 1..n :
              /\ outs[1][k].tag = "value"
              /\ outs[1][k].v \in -128..127
        /\ \A j \in 1..(n - 1) : outs[1][j].v # outs[1][n].v
        /\ n = CoverageDraws => {outs[1][k].v : k \in 1..n} = -128..127

\* The generator of seed 14 has made its 256 draws, negative ones included.
C25_Witness ==
    /\ xcfg.seed = 14
    /\ xcfg.signed
    /\ Len(outs[1]) = CoverageDraws
    /\ \E k \in 1..CoverageDraws : outs[1][k].v = -128

\* C26: with seed=14, min=0, max=255 the first three draws are 0, 126, 149;
\* on [0, 255], for every seed, the first draw is the forced 0 and each later
\* draw is s ^= s<<7; s ^= s>>5; s ^= s<<3 (mod 2^8) applied to the previous
\* state, the first of them to the seed.
C26_ReferenceSequence ==
    (xcfg.minValue = 0 /\ xcfg.maxValue = 255 /\ ~xcfg.signed) =>
        \A i \in GenIds :
            LET o == outs[i]
                step(s) ==
                    LET s1 == Xor(s, ((s * 128) % 256))
                        s2 == Xor(s1, (s1 \div 32))
                    IN  Xor(s2, ((s2 * 8) % 256))
            IN  /\ \A k \in 1..Len(o) :
                      /\ o[k].tag = "value"
                      /\ k = 1 => o[k].v = 0
                      /\ k = 2 => o[k].v = step(xcfg.seed)
                      /\ k > 2 => o[k].v = step(o[k - 1].v)
                /\ (xcfg.seed = 14 /\ Len(o) >= 3) =>
                      <<o[1].v, o[2].v, o[3].v>> = <<0, 126, 149>>

\* A generator of seed 14 on [0, 255] has made its first three draws.
C26_Witness ==
    /\ xcfg.seed = 14
    /\ xcfg.minValue = 0
    /\ xcfg.maxValue = 255
    /\ ~xcfg.signed
    /\ Len(outs[1]) = 3
    /\ outs[1][3].v = 149

(***************************************************************************)
(* Claims about Data.currentValue.                                         *)
(***************************************************************************)
\* C27: the bit vector given to the currentValue setter (or to the
\* constructor) and every bit vector the getter returned are objects other
\* than the one the Data stores, so that whatever the caller does to the bit
\* vectors it holds, the Data stores the bits that were last set and a later
\* read returns them.
C27_DefensiveCopy ==
    /\ vcur \notin VHeld
    /\ vcur = 0 <=> vexpect.value = NoneV
    /\ vcur # 0 => vheap[vcur] = vexpect.value
    /\ vcur # 0 => currentValue_getter(vheap, vcur).ref \notin (VHeld \cup {vcur})
    /\ vcur # 0 =>
          LET r == currentValue_getter(vheap, vcur)
          IN  r.heap[r.ref] = vexpect.value

\* The caller has changed the bit vector it gave to the setter and a bit
\* vector it read after that; the Data still stores what was set.
C27_Witness ==
    /\ vcur # 0
    /\ vexpect.arg # 0
    /\ vheap[vexpect.arg] # vexpect.value
    /\ \E h \in vheld : h[2] = "read" /\ h[1] > vcur /\ vheap[h[1]] # vexpect.value
    /\ vheap[vcur] = vexpect.value

(***************************************************************************)
(* Claims about the send limit of a channel.                               *)
(***************************************************************************)
\* C28: once a limit N > 0 is set on a channel whose write counter is 0, at
\* most N calls to write() send a packet and every further call raises "Max
\* write counter reached" until the counter is cleared; with the limit at -1
\* no write is refused.
C28_SendLimit ==
    /\ hsent.limit > 0 => hsent.sends <= hsent.limit
    /\ (hsent.limit > 0 /\ chan.writeCounter >= hsent.limit) => limitReached(chan)
    /\ hlast.max = -1 => hlast.outcome # "raised"

\* With the limit 1, set on a counter at 0, two calls to write() have sent.
C28_TwoSentUnderLimitOne ==
    /\ hsent.limit = 1
    /\ hsent.sends = 2
    /\ chan.writeCounterMax = 1

(***************************************************************************)
(* Claims about the CRC16 relationship.                                    *)
(***************************************************************************)
\* C29: for a Symbol [f1 = Raw(0xAA 0xBB), f2 = CRC16([f1])], specialize()
\* returns the target bytes followed by the two bytes 0x3E 0xD3; the value
\* of a CRC16 field always has 16 bits and is a function of the bytes of its
\* targets alone, in Field order: two fields over targets with the same
\* bytes have the same value, whatever the Memory and the presets of the
\* other fields.
C29_CRC16 ==
    LET fs == symbol.fields
        computed(i) == fs[i].kind = "crc16" /\ spath.presets[i] = NoneV
                           /\ spath.results[i] # NoneV
        target(i) == BitArrayToRaw(TargetBits(spath.results, fs[i].targets))
    IN  /\ \A i \in 1..Len(fs) : computed(i) => Len(spath.results[i]) = 16
        /\ \A i, j \in 1..Len(fs) :
              (computed(i) /\ computed(j) /\ target(i) = target(j))
                  => spath.results[i] = spath.results[j]
        /\ \A i \in 1..Len(fs) :
              (computed(i) /\ target(i) = <<170, 187>>)
                  => BitArrayToRaw(spath.results[i]) = <<62, 211>>
        /\ \A i \in 1..Len(fs) :
              (computed(i) /\ target(i) = <<97>>)
                  => BitArrayToRaw(spath.results[i]) = <<193, 232>>
        /\ (/\ spc = "done"
            /\ Len(fs) = 2
            /\ fs[1].kind = "data"
            /\ fs[2].kind = "crc16"
            /\ spath.results[1] = IntToBits(170, 8) \o IntToBits(187, 8)
            /\ spath.presets[2] = NoneV)
              => sout = <<170, 187, 62, 211>>

\* specialize() of Symbol([Field(Raw(b'\xaa\xbb')), Field(CRC16([f1]))])
\* without Memory or presets has returned.
C29_Witness ==
    /\ spc = "done"
    /\ Len(symbol.fields) = 2
    /\ symbol.fields[1].kind = "data"
    /\ symbol.fields[1].currentValue = IntToBits(170, 8) \o IntToBits(187, 8)
    /\ symbol.fields[2].kind = "crc16"
    /\ sargs.memory = NoMemory
    /\ \A i \in 1..2 : sargs.presets[i] = NoneV
    /\ sout = <<170, 187, 62, 211>>

(***************************************************************************)
(* Claims about the state of the XorShift generator.                       *)
(***************************************************************************)
\* C30: for every nonzero seed, seeds of 2^w or more included (w being the
\* selected width), and after any number of draws, the stored state is
\* nonzero and lies in [1, 2^w - 1].
C30_StateInWidth ==
    xphase = "idle" =>
        /\ gen[1].state # 0
        /\ gen[1].state \in 1..(Pow2(Bitsize(xcfg)) - 1)

\* The same for the seeds that fit the selected width.
C30_StateInWidthSeedInWidth ==
    (xphase = "idle" /\ xcfg.seed < Pow2(Bitsize(xcfg))) =>
        gen[1].state \in 1..(Pow2(Bitsize(xcfg)) - 1)

\* A generator of seed 256 on [0, 255] has drawn twice: its state is above
\* 255 and the second draw found no value in the interval.
C30_StateOutOfWidth ==
    /\ xcfg.seed = 256
    /\ xcfg.minValue = 0
    /\ xcfg.maxValue = 255
    /\ Len(outs[1]) = 2
    /\ gen[1].state > 255
    /\ outs[1][2].tag = "none"

\* The branches ly of learn and dy of domainCMP are for the same sizes in the
\* same order, and each pair differs in the Memory entry of v only.
SameBranches(ly, dy, v) ==
    /\ Len(ly) = Len(dy)
    /\ \A k \in 1..Len(ly) :
          /\ ly[k].results[v] = dy[k].results[v]
          /\ [ly[k] EXCEPT !.memory[v] = dy[k].memory[v]] = dy[k]

\* C31: for every variable, path and content, learn yields a branch for
\* exactly the sizes for which domainCMP yields one, in the same
\* longest-first order and with the same recorded prefix; the branches
\* differ in the Memory entry only.
C31_LearnSameCandidates ==
    dop.name = "learn" =>
        SameBranches(dyield,
                     domainCMP(data[dop.var], dop.var, dop.before).yielded,
                     dop.var)

\* The same on the paths where addResult succeeds for every prefix.
C31_LearnSameCandidatesNothingRefused ==
    (dop.name = "learn" /\ dop.before.refused = {}) =>
        SameBranches(dyield,
                     domainCMP(data[dop.var], dop.var, dop.before).yielded,
                     dop.var)

\* learn has left out a size that domainCMP yields a branch for: the one
\* whose result addResult refused.
C31_RefusedBranch ==
    /\ dop.name = "learn"
    /\ dop.var = "f1"
    /\ Len(dyield) = 2
    /\ Len(domainCMP(data["f1"], "f1", dop.before).yielded) = 3
    /\ domainCMP(data["f1"], "f1", dop.before).yielded[2].results["f1"] = <<1>>
    /\ \A k \in 1..2 : dyield[k].results["f1"] # <<1>>

\* N = |max - min| + 1 of the generators' interval.
NbValues == Abs(xcfg.maxValue - xcfg.minValue) + 1

\* C32: on a generator that was never restored, draw number N + 1, with
\* N = |max - min| + 1, restarts from the seed and returns what draw 1
\* returned, and the values returned are periodic with period N: a draw
\* restarts from the seed exactly when its number is 1 modulo N, and draw
\* k + N returns what draw k returned.
C32_Period ==
    \A i \in GenIds :
        /\ \A k \in 1..Len(outs[i]) :
              outs[i][k].first = ((k - 1) % NbValues = 0)
        /\ \A k \in 1..Len(outs[i]) :
              k + NbValues <= Len(outs[i]) => outs[i][k + NbValues] = outs[i][k]
        /\ gen[i].nbCall = Len(outs[i]) % NbValues

\* Draw N + 1 of an interval of four values or more has been made: it
\* restarted from the seed and returned the value of draw 1, which the draws
\* in between did not return.
C32_Witness ==
    /\ NbValues >= 4
    /\ Len(outs[1]) = NbValues + 1
    /\ outs[1][NbValues + 1].first
    /\ outs[1][NbValues + 1] = outs[1][1]
    /\ \A k \in 2..NbValues : outs[1][k].v # outs[1][1].v /\ ~outs[1][k].first

\* The generate() call of this step failed on the mutation budget.
GenerateFailed ==
    /\ Len(mhist') = Len(mhist) + 1
    /\ mhist'[Len(mhist')].tag = "error"

\* C33: a generate() call that fails on the mutation budget leaves the
\* mutation counter, the generator's read cursor and the seed as they were,
\* and 0 <= counter <= counterMax in every reachable state.
C33_FailedGenerate ==
    /\ [](0 <= mut.currentCounter /\ mut.currentCounter <= mut.counterMax)
    /\ [][GenerateFailed =>
            /\ mut'.currentCounter = mut.currentCounter
            /\ mut'.pos = mut.pos
            /\ mut'.seed = mut.seed
            /\ mut' = mut]_vars

\* generate() has failed twice in a row on a mutator with a budget of two
\* calls or more, a seed that was set and a cursor away from the start.
C33_Witness ==
    /\ mut.counterMax >= 2
    /\ mut.currentCounter = mut.counterMax
    /\ mut.seed # 0
    /\ mut.pos # 0
    /\ Len(mhist) = mut.counterMax + 2
    /\ mhist[Len(mhist)].tag = "error"
    /\ mhist[Len(mhist) - 1].tag = "error"

\* C34: after any sequence of generate() calls, failed ones included,
\* followed by reset(), exactly counterMax further generate() calls succeed
\* before the next failure; getValueAt() leaves the counter and the cursor
\* (the whole mutator) unchanged, and so the outcomes of generate().
C34_ResetRestoresBudget ==
    /\ [](mreset =>
            /\ mut.currentCounter = Len(SelectSeq(mhist, LAMBDA o : o.tag = "value"))
            /\ \A k \in 1..Len(mhist) :
                  mhist[k].tag = (IF k <= mut.counterMax THEN "value" ELSE "error"))
    /\ [][mlast' # mlast =>
            /\ mut'.currentCounter = mut.currentCounter
            /\ mut'.pos = mut.pos
            /\ mut' = mut]_vars

\* reset() came after a failed generate() call, getValueAt() has been
\* called, and since the reset counterMax >= 2 calls have succeeded and the
\* next one has failed.
C34_Witness ==
    /\ mreset
    /\ mut.counterMax >= 2
    /\ mbefore >= 1
    /\ mlast.out.tag = "value"
    /\ Len(mhist) = mut.counterMax + 1
    /\ mhist[mut.counterMax].tag = "value"
    /\ mhist[mut.counterMax + 1].tag = "error"

(***************************************************************************)
(* Claims about the messages of a Symbol.                                  *)
(***************************************************************************)
\* C35: after symbol.messages = L, for every list L of valid messages, the
\* list object the getter returned included, the Symbol's messages are the
\* elements of L in order.
C35_MessagesAssigned ==
    (lop.name = "set" /\ ~lop.err) => lheap[Messages] = lop.given

\* The same for the lists that are not the Symbol's own list object.
C35_MessagesAssignedOtherList ==
    (lop.name = "set" /\ ~lop.err /\ lop.ref # Messages) =>
        lheap[Messages] = lop.given

\* The Symbol held two messages, its own list was assigned back to it, and
\* it holds none.
C35_OwnListEmptied ==
    /\ lop.name = "set"
    /\ ~lop.err
    /\ lop.ref = Messages
    /\ Len(lop.given) = 2
    /\ lheap[Messages] = <<>>

(***************************************************************************)
(* Claims about a channel run as a thread.                                 *)
(***************************************************************************)
\* C36: the send limit covers the threaded mode too: under a limit N > 0,
\* set while nothing had been sent, the packets handed to writePacket since
\* the last clear never exceed what the limit lets through (the N + 1 calls
\* that pass write_map's test), and write() does not enqueue once the limit
\* is reached.
C36_SendLimitThreaded ==
    /\ tsent.limit > 0 => tsent.sends <= tsent.limit + 1
    /\ tlast.outcome = "queued" => ~tlast.reached

\* Under the limit 1 the channel thread has handed three packets to
\* writePacket, and the write counter is still 0.
C36_ThreeWrittenUnderLimitOne ==
    /\ tsent.limit = 1
    /\ tchan.writeCounterMax = 1
    /\ tsent.sends = 3
    /\ tlog.written = <<1, 2, 3>>
    /\ tchan.writeCounter = 0

\* write() has enqueued although the counter was past the limit.
C36_QueuedPastLimit ==
    /\ tlast.outcome = "queued"
    /\ tlast.reached
    /\ tchan.writeCounter > tchan.writeCounterMax
    /\ tchan.writeCounterMax > 0

\* C37: when stop() is called while the channel thread executes its loop,
\* no exception leaves run(): in no interleaving of stop() (close, then set
\* the stop event) with the loop does the exception of a read on the closed
\* channel escape.
C37_CleanStop == tpc # "raised"

\* The exception of read() has left run() while stop() was between close()
\* and the setting of the stop event.
C37_ReadEscaped ==
    /\ tpc = "raised"
    /\ tlog.escaped = "read"
    /\ tmain.pc = "stop"
    /\ ~tstop

\* The exception of read() leaves run() only while the stop event is not
\* set.
C37_NoEscapeOnceStopped ==
    [][(tpc # "raised" /\ tpc' = "raised" /\ tlog'.escaped = "read") => ~tstop]_vars

\* C38: in threaded mode, while stop() is not called and read() and
\* writePacket raise nothing but a timeout or PermissionError, the items
\* handed to writePacket are the items enqueued, each once and in the order
\* of their enqueueing, and every item enqueued is eventually handed to
\* writePacket.
C38_Delivery ==
    /\ [](/\ Len(tlog.written) <= tlog.enq
          /\ tlog.written = [k \in 1..Len(tlog.written) |-> k])
    /\ \A k \in 1..MaxQueued : (tlog.enq >= k) ~> (Len(tlog.written) >= k)

\* Two items or more were enqueued and all were handed to writePacket in
\* order, one of them refused with PermissionError.
C38_Witness ==
    /\ tchan.threaded_mode
    /\ tlog.enq >= 2
    /\ tlog.written = [k \in 1..tlog.enq |-> k]
    /\ tlog.denied
    /\ tunfinished = 0

\* C39: when flush() returns, every item enqueued before the call has been
\* taken from the queue and handed to writePacket (an item is marked done
\* only after the write attempt), and a flush() that was called eventually
\* returns while the channel thread runs.
C39_Flush ==
    /\ [](tmain.returned => tmain.seen >= tmain.mark)
    /\ [](tunfinished >= tlog.enq - Len(tlog.written))
    /\ (tmain.pc = "flush") ~> (tmain.pc = "idle" /\ tmain.returned)

\* flush() was called with two items or more not yet done, and has returned
\* after they were handed to writePacket.
C39_Witness ==
    /\ tmain.returned
    /\ tmain.pending >= 2
    /\ tmain.seen >= tmain.mark
    /\ tmain.mark >= 2

(***************************************************************************)
(* Claims about Timestamp.                                                 *)
(***************************************************************************)
\* The digits of 10^k.
PowerOfTen(k) == <<1>> \o [i \in 1..k |-> 0]

\* The number of units in one second: SECOND 1, DECISECOND 10, CENTISECOND
\* 10^2, MILLISECOND 10^3, MICROSECOND 10^6, NANOSECOND 10^9.
UnitsPerSecond ==
    [SECOND |-> PowerOfTen(0),
     DECISECOND |-> PowerOfTen(1),
     CENTISECOND |-> PowerOfTen(2),
     MILLISECOND |-> PowerOfTen(3),
     MICROSECOND |-> PowerOfTen(6),
     NANOSECOND |-> PowerOfTen(9)]

\* C40: the scale factor of every unity is the number of such units in one
\* second, so that generate(), without a given value, emits the whole part
\* of (now - epoch) in seconds multiplied by the units per second.
C40_UnityFactors ==
    /\ Unity[kstamp.unity] = UnitsPerSecond[kstamp.unity]
    /\ (kout.at >= 0 /\ kstamp.value = NoneV) =>
          kout.out = DivTen(MulDigits(UnitsPerSecond[kstamp.unity], kout.at))

\* The same for every unity but NANOSECOND.
C40_UnityFactorsButNanosecond ==
    kstamp.unity # "NANOSECOND" =>
      /\ Unity[kstamp.unity] = UnitsPerSecond[kstamp.unity]
      /\ (kout.at >= 0 /\ kstamp.value = NoneV) =>
            kout.out = DivTen(MulDigits(UnitsPerSecond[kstamp.unity], kout.at))

\* One second and a half after the epoch a Timestamp in nanoseconds has
\* generated 15 000 000 000, ten times the nanoseconds elapsed.
C40_TenTimesTheNanoseconds ==
    /\ kstamp.unity = "NANOSECOND"
    /\ kstamp.value = NoneV
    /\ kout.at = 15
    /\ kout.out = <<1, 5, 0, 0, 0, 0, 0, 0, 0, 0, 0>>
    /\ kout.out = MulDigits(DivTen(MulDigits(UnitsPerSecond["NANOSECOND"], 15)), 10)

====
